---------------------------- MODULE Spec2Model ----------------------------
(***************************************************************************)
(* A model of the NTFS MFT timeline tool: the path resolver of mft.rs      *)
(* (path_info, path_cache, build_path_recursive), the timeline assembler   *)
(* of types.rs / output.rs / interactive.rs and the record boundary        *)
(* scanner of mft.rs / simd_optimize.rs.                                   *)
(*                                                                         *)
(* Strings are tuples of one-character strings, so that format!, is_empty  *)
(* and substring search are computed and not assumed.                      *)
(***************************************************************************)
EXTENDS Integers, Sequences, FiniteSets, TLC

VARIABLES
    max_path_depth,   \* ParsingConfig.max_path_depth handed to MftParser::with_config
    path_info,        \* MftParser.path_info : record number -> PathInfo
    path_cache,       \* MftParser.path_cache : record number -> String
    walk,             \* the call stack of one get_full_path_for_record call
    tie_policy,       \* how this build's sort_unstable_by leaves tied elements
    records,          \* write_timeline / build_timeline_simple: the Vec<Event>
    events,           \* the extracted Vec<TimelineEvent>, before the sort
    sorted_events,    \* the Vec<TimelineEvent> after the sort
    sorted_by,        \* which function built sorted_events
    mft,              \* parse_mft_data_parallel: the FILE records of `data`
    string_pool,      \* MftParser.string_pool : hash -> string
    all_records,      \* the decoded Events, by record number
    pc,               \* where the worker of each record stands
    found,            \* the worker's local string between its two steps
    pool_at_paths,    \* string_pool when build_directory_paths_parallel began
    rows,             \* the rows written by each finished run
    data,             \* the scanner's input buffer
    boundaries,       \* the offsets the scanner returned
    scanner,          \* which scanner ran
    overflow_checks,  \* whether this build panics on arithmetic overflow
    filetime,         \* the FILETIME value handed to the conversion
    converted,        \* the conversion's result
    converter,        \* which conversion ran
    record_data,      \* the 1024 bytes handed to parse_single_entry_fast
    entry_buffer,     \* per decoding path, the record after the fixup step
    attributes,       \* per decoding path, the (type, offset) pairs found
    decoded,          \* per decoding path, the decoded Event
    stage,            \* per decoding path, how far the decoding is
    valid_fixup,      \* per decoding path, what the fixup function returned
    signature_data,   \* validate_mft_signature: the buffer data
    is_mft,           \* validate_mft_signature: the returned bool
    input,            \* the input file, or the entry of a ZIP archive
    scanner_data,     \* the bytes parse_mft_data received
    input_error,      \* the error the input ended with
    image,            \* locate_mft_in_raw_image: the raw image file
    located,          \* locate_mft_in_raw_image: what the call produced
    use_simd,         \* MftParser.use_simd
    mft_data,         \* parse_mft_data_sequential: data, as 1024-byte chunks
    record_num,       \* parse_mft_data_sequential: the loop index
    parsed_records,   \* parse_mft_data_sequential: the Vec<Event>
    parse_result,     \* parse_mft_data_sequential: what the call produced
    arc_pool,         \* StringPool.pool : hash -> Arc<str> (allocation and text)
    intern_pc,        \* per thread, the intern call it is in
    returned,         \* the calls that returned, in order, with their handles
    allocated,        \* how many Arc<str> the pool's callers have allocated
    artifact_index,   \* process_multiple_artifacts: how many artifacts the parser has parsed before
    after_date,       \* Config.after_date
    before_date,      \* Config.before_date
    unfiltered,       \* App::run: the parsed Vec<Event> handed to apply_filters
    filter_stage,     \* App::run: how far the run is
    timezone,         \* BatchTimestampFormatter.timezone
    format_input,     \* format_events: the timestamps of the events, in order
    timestamp_cache,  \* BatchTimestampFormatter.cache : unix seconds -> text
    formatted_rows,   \* the timestamp of the FormattedRow of each event
    format_pc,        \* per chunk, the event it is at and whether its lookup missed
    ole_doc,          \* the compound document: header fields, FAT and sectors of the input
    ole_stage,        \* the loop OleCompoundDocument::parse is in
    current_sector,   \* current_sector of the running walk
    directory_entries, \* entries of read_directory_entries
    mini_fat,         \* mini_fat of read_mini_fat
    mini_fat_reads,   \* the counter of the for loop of read_mini_fat
    directory_passes, \* the passes of the while loop of read_directory_entries, modulo 2
    mini_stream_len,  \* mini_stream_data.len() in read_all_streams
    stream_index,     \* the directory entry read_all_streams is at (0: the root's mini stream)
    walk_mini,        \* TRUE when the running stream walk is read_mini_stream_data
    stream_len,       \* data.len() of the running stream walk
    bytes_remaining,  \* bytes_remaining of the running stream walk
    ole_result,       \* None while parse runs, then Ok or Err
    viewer_rows,      \* formatted_rows, one text per event; filtered_events is 0..len-1
    selected,         \* table_state.selected()
    current_column,   \* InteractiveViewer.current_column
    search_mode,      \* TRUE inside the input loop of start_search
    search_query,     \* InteractiveViewer.search_query
    search_results,   \* InteractiveViewer.search_results, 0-based display indexes
    current_search_index, \* InteractiveViewer.current_search_index
    viewport_start,   \* InteractiveViewer.viewport_start
    viewport_size,    \* InteractiveViewer.viewport_size
    terminal_height,  \* InteractiveViewer.terminal_height
    drawn             \* TRUE when the last step of the viewer was a draw

walkVars == <<max_path_depth, path_info, path_cache, walk>>

timelineVars == <<tie_policy, records, events, sorted_events, sorted_by>>

parseVars == <<mft, string_pool, all_records, pc, found, pool_at_paths, rows>>

scanVars == <<data, boundaries, scanner>>

convertVars == <<overflow_checks, filetime, converted, converter>>

recordVars == <<record_data, entry_buffer, attributes, decoded, stage, valid_fixup>>

signatureVars == <<signature_data, is_mft>>

inputVars == <<input, scanner_data, input_error>>

imageVars == <<image, located>>

bufferVars == <<use_simd, mft_data, record_num, parsed_records, parse_result>>

internVars == <<arc_pool, intern_pc, returned, allocated>>

artifactVars == <<artifact_index>>

filterVars == <<after_date, before_date, unfiltered, filter_stage>>

formatVars == <<timezone, format_input, timestamp_cache, formatted_rows, format_pc>>

oleVars == <<ole_doc, ole_stage, current_sector, directory_entries, mini_fat, mini_fat_reads, directory_passes, mini_stream_len, stream_index, walk_mini, stream_len, bytes_remaining, ole_result>>

viewerVars == <<viewer_rows, selected, current_column, search_mode, search_query, search_results, current_search_index, viewport_start, viewport_size, terminal_height, drawn>>

vars == <<walkVars, timelineVars, parseVars, scanVars, convertVars, recordVars, signatureVars, inputVars, imageVars, bufferVars, internVars, artifactVars, filterVars, formatVars, oleVars, viewerVars>>

(***************************************************************************)
(* Bounds of the model.                                                    *)
(***************************************************************************)
\* Record numbers above the root: 6 .. MaxRecordNumber.
MaxRecordNumber == 7

\* A small configured max_path_depth, so that a parent chain can exceed it.
SmallPathDepth == 2

\* Timestamps are drawn from 1 .. MaxTimestamp.
MaxTimestamp == 2

\* Above this many events build_timeline_simple sorts in parallel.  The
\* code compares with 10000; the timelines here have at most 16 events and
\* the threshold is scaled down with them, so that both branches are taken.
ParallelSortThreshold == 3

\* The FILETIME values converted lie in windows of SecondsWindow seconds.
SecondsWindow == 12

\* The update sequence arrays decoded have 0 .. MaxUsaSize entries.
MaxUsaSize == 4

\* A scanned buffer holds up to MaxChunks full 1024-byte records.
MaxChunks == 2

(***************************************************************************)
(* Program constants.                                                      *)
(***************************************************************************)
\* types.rs: ParsingConfig::optimized(), the configuration App::new passes.
OptimizedPathDepth == 30

\* mft.rs: const MFT_RECORD_SIZE
MFT_RECORD_SIZE == 1024

\* mft.rs: "MFT entry 5 is the root directory".
RootRecord == 5

(***************************************************************************)
(* Strings.                                                                *)
(***************************************************************************)
EmptyString == << >>

Digits == <<"0", "1", "2", "3", "4", "5", "6", "7", "8", "9">>

\* The decimal text of a u64, as `{}` formats it.
RECURSIVE DecimalString(_)
DecimalString(n) ==
    IF n < 10 THEN <<Digits[n + 1]>>
    ELSE DecimalString(n \div 10) \o <<Digits[(n % 10) + 1]>>

\* s has t as a prefix: str::starts_with.
StartsWith(s, t) ==
    /\ Len(s) >= Len(t)
    /\ \A i \in 1..Len(t) : s[i] = t[i]

\* s holds t as a substring: str::contains.
Contains(s, t) ==
    \E k \in 0..(Len(s) - Len(t)) :
        \A i \in 1..Len(t) : s[k + i] = t[i]

CyclePrefix == <<"[", "C", "y", "c", "l", "e", "-">>
NotFoundPrefix == <<"[", "N", "o", "t", "F", "o", "u", "n", "d", "-">>
OrphanedPrefix == <<"[", "O", "r", "p", "h", "a", "n", "e", "d", "]", "/">>

\* A resolver that reports a cycle by the bare record number.
UntaggedCycle(entry_id) == DecimalString(entry_id)

\* format!("[Cycle-{}]", entry_id)
CycleTag(entry_id) == CyclePrefix \o DecimalString(entry_id) \o <<"]">>

\* format!("[NotFound-{}]", entry_id)
NotFoundTag(entry_id) == NotFoundPrefix \o DecimalString(entry_id) \o <<"]">>

\* format!("[Orphaned]/{}", filename)
OrphanedPath(filename) == OrphanedPrefix \o filename

\* format!("{}/{}", parent_path, filename)
JoinPath(parent_path, filename) == parent_path \o <<"/">> \o filename

(***************************************************************************)
(* StringPool (simd_optimize.rs): a map from the FNV-1a hash of the bytes  *)
(* handed to intern to the string stored for them.  A u64 is four 16-bit   *)
(* limbs, least significant first, so that the wrapping multiplication is  *)
(* computed exactly.                                                       *)
(***************************************************************************)
\* The characters a filename of the model can hold and their codes (each is
\* one byte of UTF-8 and one code unit of UTF-16).
FileNameChars ==
    <<"$", ".", "0", "1", "2", "3", "4", "5", "6", "7", "8", "9", "F", "M", "T",
      "a", "b", "c", "d", "e", "f", "g", "h", "i", "j", "k", "l", "m", "n",
      "o", "p">>

FileNameCodes ==
    <<36, 46, 48, 49, 50, 51, 52, 53, 54, 55, 56, 57, 70, 77, 84,
      97, 98, 99, 100, 101, 102, 103, 104, 105, 106, 107, 108, 109, 110,
      111, 112>>

CharCode(c) ==
    FileNameCodes[CHOOSE i \in 1..Len(FileNameChars) : FileNameChars[i] = c]

CharOf(code) ==
    FileNameChars[CHOOSE i \in 1..Len(FileNameCodes) : FileNameCodes[i] = code]

\* str::as_bytes: the UTF-8 bytes of a string of these (ASCII) characters.
AsBytes(str) == [i \in 1..Len(str) |-> CharCode(str[i])]

\* String::from_utf8_lossy on bytes of these characters.
FromUtf8Lossy(bytes) == [i \in 1..Len(bytes) |-> CharOf(bytes[i])]

\* The UTF-16LE bytes of a name, as the $FILE_NAME attribute stores it.
Utf16Bytes(str) ==
    [i \in 1..(2 * Len(str)) |->
        IF i % 2 = 1 THEN CharCode(str[(i + 1) \div 2]) ELSE 0]

\* convert_utf16_simd: u16::from_le_bytes of each pair, String::from_utf16.
FromUtf16(bytes) ==
    [i \in 1..(Len(bytes) \div 2) |->
        CharOf(bytes[2 * i - 1] + 256 * bytes[2 * i])]

RECURSIVE BitXor(_, _)
BitXor(a, b) ==
    IF a = 0 THEN b
    ELSE IF b = 0 THEN a
    ELSE 2 * BitXor(a \div 2, b \div 2) + ((a + b) % 2)

\* 0xcbf29ce484222325
FnvOffsetBasis == <<8997, 33826, 40164, 52210>>

\* hash.wrapping_mul(0x100000001b3): h * 435 + (h << 40), modulo 2^64.
FnvMul(h) ==
    LET t0 == h[1] * 435
        t1 == h[2] * 435 + (t0 \div 65536)
        t2 == h[3] * 435 + (h[1] % 256) * 256 + (t1 \div 65536)
        t3 == h[4] * 435 + (h[2] % 256) * 256 + (h[1] \div 256)
                + (t2 \div 65536)
    IN  <<t0 % 65536, t1 % 65536, t2 % 65536, t3 % 65536>>

\* One round of the loop of fast_hash.
FnvRound(h, byte) == FnvMul(<<BitXor(h[1], byte), h[2], h[3], h[4]>>)

\* The loop of fast_hash from byte i on, with hash h so far.  (The test on
\* the new hash only makes TLC compute it before the next round.)
RECURSIVE FnvFold(_, _, _)
FnvFold(h, bytes, i) ==
    IF i > Len(bytes) THEN h
    ELSE LET next == FnvRound(h, bytes[i])
         IN  IF next[1] >= 0 THEN FnvFold(next, bytes, i + 1) ELSE next

\* StringPool::fast_hash: FNV-1a over the bytes.
fast_hash(bytes) == FnvFold(FnvOffsetBasis, bytes, 1)

\* StringPool::intern: the string stored under the hash if there is one,
\* else the lossy UTF-8 decoding of the bytes, which is stored.
InternString(pool, bytes) ==
    LET hash == fast_hash(bytes)
    IN  IF hash \in DOMAIN pool THEN pool[hash] ELSE FromUtf8Lossy(bytes)

InternPool(pool, bytes) ==
    LET hash == fast_hash(bytes)
    IN  IF hash \in DOMAIN pool THEN pool
        ELSE (hash :> FromUtf8Lossy(bytes)) @@ pool

(***************************************************************************)
(* The record numbers and path-info maps of the model.                     *)
(***************************************************************************)
\* Record 0 ($MFT), the root and the records above it.
RecordNumbers == {0, RootRecord} \cup (6..MaxRecordNumber)

\* The filename a record of the buffer may carry.  Record 6 may also carry
\* the empty name (name_length = 0 in its $FILE_NAME attribute).
FileNamesOf(id) ==
    CASE id = 0 -> {<<"$", "M", "F", "T">>}
      [] id = RootRecord -> {<<".">>}
      [] id = 6 -> {EmptyString, <<"a">>}
      [] OTHER -> {<<"f">> \o DecimalString(id)}

\* The parents a record may name (the 48-bit parent reference of the chosen
\* $FILE_NAME).  The root names itself, as on a real volume, or record 6.
ParentsOf(id) == IF id = RootRecord THEN {RootRecord, 6} ELSE RecordNumbers

PathInfoOf(id) ==
    [filename : FileNamesOf(id), parent_id : ParentsOf(id)]

\* Every path-info map pass 1 can leave behind for the records of a buffer: a
\* record without a $FILE_NAME gets no entry.  The DashMap is a function whose
\* domain is the set of keys present.
RECURSIVE PathInfoMapsOver(_)
PathInfoMapsOver(ids) ==
    IF ids = {} THEN {[x \in {} |-> x]}
    ELSE LET id == CHOOSE x \in ids : TRUE
             rest == PathInfoMapsOver(ids \ {id})
         IN  rest \cup {m @@ (id :> p) : m \in rest, p \in PathInfoOf(id)}

PathInfoMaps == PathInfoMapsOver(RecordNumbers)

Max(a, b) == IF a >= b THEN a ELSE b

(***************************************************************************)
(* build_path_recursive, one call or return at a time.                     *)
(*                                                                         *)
(* A walk is the state of one invocation started by                        *)
(* get_full_path_for_record: `stack` holds the entry_id of every active    *)
(* call (innermost last), `visited` is the HashSet handed down by          *)
(* reference, `phase` says whether the innermost call has just been        *)
(* entered ("call") or a callee has just handed `ret` back ("ret").        *)
(* `calls` counts the calls made so far and `depth` the deepest stack.     *)
(***************************************************************************)
NoWalk == [stack |-> << >>, visited |-> {}, phase |-> "idle",
           ret |-> EmptyString, calls |-> 0, depth |-> 0, entry |-> 0]

\* get_full_path_for_record line 979: the first call, with a fresh HashSet.
WalkStart(entry_id) ==
    [stack |-> <<entry_id>>, visited |-> {}, phase |-> "call",
     ret |-> EmptyString, calls |-> 1, depth |-> 1, entry |-> entry_id]

WalkDone(w) == w.phase = "ret" /\ w.stack = << >>

Pop(stack) == SubSeq(stack, 1, Len(stack) - 1)

\* The innermost call returns `value` to its caller.
WalkReturn(w, visited, value) ==
    [w EXCEPT !.stack = Pop(w.stack), !.visited = visited,
              !.phase = "ret", !.ret = value]

\* The innermost call calls build_path_recursive(parent_id, visited).
WalkCall(w, visited, parent_id) ==
    [w EXCEPT !.stack = Append(w.stack, parent_id), !.visited = visited,
              !.phase = "call", !.calls = w.calls + 1,
              !.depth = Max(w.depth, Len(w.stack) + 1)]

\* A resolver that forgets its visited set.
AlreadyVisitedNever(visited, entry_id) == FALSE

\* Line 989: visited.contains(&entry_id).
AlreadyVisited(visited, entry_id) == entry_id \in visited

\* Lines 987-1013 and 1022-1029: the body of a call up to its return or its
\* recursive call.
WalkEnter(info, w) ==
    LET entry_id == w.stack[Len(w.stack)]
        visited == w.visited \cup {entry_id}
    IN  IF AlreadyVisited(w.visited, entry_id) THEN
            WalkReturn(w, w.visited, CycleTag(entry_id))
        ELSE IF entry_id = RootRecord THEN
            WalkReturn(w, w.visited, EmptyString)
        ELSE IF entry_id \in DOMAIN info THEN
            LET filename == info[entry_id].filename
                parent_id == info[entry_id].parent_id
            IN  IF parent_id = RootRecord THEN
                    WalkReturn(w, visited, filename)
                ELSE IF parent_id = entry_id THEN
                    WalkReturn(w, visited, OrphanedPath(filename))
                ELSE IF parent_id > 0 THEN
                    WalkCall(w, visited, parent_id)
                ELSE
                    WalkReturn(w, visited, OrphanedPath(filename))
        ELSE
            WalkReturn(w, visited, NotFoundTag(entry_id))

\* A resolver that joins with "/" whatever the parent's path is.
WalkResumeJoin(info, w) ==
    WalkReturn(w, w.visited,
               JoinPath(w.ret, info[w.stack[Len(w.stack)]].filename))

\* Lines 1013-1021: the call resumes with parent_path = the callee's result.
WalkResume(info, w) ==
    LET filename == info[w.stack[Len(w.stack)]].filename
        parent_path == w.ret
    IN  IF parent_path = EmptyString THEN
            WalkReturn(w, w.visited, filename)
        ELSE
            WalkReturn(w, w.visited, JoinPath(parent_path, filename))

WalkStep(info, w) ==
    IF w.phase = "call" THEN WalkEnter(info, w) ELSE WalkResume(info, w)

\* build_path_recursive run to its return.
RECURSIVE WalkRun(_, _)
WalkRun(info, w) ==
    IF WalkDone(w) THEN w ELSE WalkRun(info, WalkStep(info, w))

build_path_recursive(info, entry_id) == WalkRun(info, WalkStart(entry_id)).ret

(***************************************************************************)
(* SpecWalk: get_full_path_for_record, one call or return at a time, for   *)
(* every path-info map, configuration and sequence of records resolved by  *)
(* one parser.                                                             *)
(***************************************************************************)
ConfiguredDepths == {SmallPathDepth, OptimizedPathDepth}

EmptyMap == [x \in {} |-> x]

\* No timeline has been built.
TimelineIdle ==
    /\ tie_policy = "stable"
    /\ records = << >>
    /\ events = << >>
    /\ sorted_events = << >>
    /\ sorted_by = "none"

\* No buffer is being parsed.
ParseIdle ==
    /\ mft = EmptyMap
    /\ string_pool = EmptyMap
    /\ all_records = EmptyMap
    /\ pc = EmptyMap
    /\ found = EmptyMap
    /\ pool_at_paths = EmptyMap
    /\ rows = << >>

\* No buffer has been scanned.
ScanIdle ==
    /\ data = << >>
    /\ boundaries = << >>
    /\ scanner = "none"

ConvertIdle ==
    /\ overflow_checks = FALSE
    /\ filetime = <<0, 0, 0, 0>>
    /\ converted = << >>
    /\ converter = "none"

RecordIdle ==
    /\ record_data = << >>
    /\ entry_buffer = << >>
    /\ attributes = << >>
    /\ decoded = << >>
    /\ stage = << >>
    /\ valid_fixup = << >>

SignatureIdle ==
    /\ signature_data = << >>
    /\ is_mft = << >>

InputIdle ==
    /\ input = << >>
    /\ scanner_data = << >>
    /\ input_error = << >>

ImageIdle ==
    /\ image = << >>
    /\ located = << >>

BufferIdle ==
    /\ use_simd = FALSE
    /\ mft_data = << >>
    /\ record_num = 0
    /\ parsed_records = << >>
    /\ parse_result = << >>

InternIdle ==
    /\ arc_pool = << >>
    /\ intern_pc = << >>
    /\ returned = << >>
    /\ allocated = 0

ArtifactIdle ==
    /\ artifact_index = 0

FilterIdle ==
    /\ after_date = << >>
    /\ before_date = << >>
    /\ unfiltered = << >>
    /\ filter_stage = << >>

FormatIdle ==
    /\ timezone = << >>
    /\ format_input = << >>
    /\ timestamp_cache = << >>
    /\ formatted_rows = << >>
    /\ format_pc = << >>

OleIdle ==
    /\ ole_doc = << >>
    /\ ole_stage = "idle"
    /\ current_sector = 0
    /\ directory_entries = << >>
    /\ mini_fat = << >>
    /\ mini_fat_reads = 0
    /\ directory_passes = 0
    /\ mini_stream_len = 0
    /\ stream_index = 0
    /\ walk_mini = FALSE
    /\ stream_len = 0
    /\ bytes_remaining = 0
    /\ ole_result = << >>

ViewerIdle ==
    /\ viewer_rows = << >>
    /\ selected = << >>
    /\ current_column = 0
    /\ search_mode = FALSE
    /\ search_query = << >>
    /\ search_results = << >>
    /\ current_search_index = 0
    /\ viewport_start = 0
    /\ viewport_size = 0
    /\ terminal_height = 0
    /\ drawn = FALSE

InitWalk ==
    /\ max_path_depth \in ConfiguredDepths
    /\ path_info \in PathInfoMaps
    /\ path_cache = EmptyMap
    /\ walk = NoWalk
    /\ TimelineIdle
    /\ ParseIdle
    /\ ScanIdle
    /\ ConvertIdle
    /\ RecordIdle
    /\ SignatureIdle
    /\ InputIdle
    /\ ImageIdle
    /\ BufferIdle
    /\ InternIdle
    /\ ArtifactIdle
    /\ FilterIdle
    /\ FormatIdle
    /\ OleIdle
    /\ ViewerIdle

\* get_full_path_for_record(entry_id), lines 974-976: the cache holds the
\* record and its string is returned; no call of build_path_recursive.
CachedWalk(entry_id) ==
    /\ walk.phase \in {"idle", "done"}
    /\ entry_id \in DOMAIN path_cache
    /\ walk' = [NoWalk EXCEPT !.phase = "done", !.entry = entry_id,
                              !.ret = path_cache[entry_id]]
    /\ UNCHANGED <<max_path_depth, path_info, path_cache>>
    /\ UNCHANGED <<timelineVars, parseVars, scanVars>>
    /\ UNCHANGED convertVars
    /\ UNCHANGED recordVars
    /\ UNCHANGED signatureVars
    /\ UNCHANGED inputVars
    /\ UNCHANGED imageVars
    /\ UNCHANGED bufferVars
    /\ UNCHANGED internVars
    /\ UNCHANGED artifactVars
    /\ UNCHANGED filterVars
    /\ UNCHANGED formatVars
    /\ UNCHANGED oleVars
    /\ UNCHANGED viewerVars

\* get_full_path_for_record(entry_id), line 979: the cache has no entry and
\* the recursion starts with a fresh HashSet.
StartWalk(entry_id) ==
    /\ walk.phase \in {"idle", "done"}
    /\ entry_id \notin DOMAIN path_cache
    /\ walk' = WalkStart(entry_id)
    /\ UNCHANGED <<max_path_depth, path_info, path_cache>>
    /\ UNCHANGED <<timelineVars, parseVars, scanVars>>
    /\ UNCHANGED convertVars
    /\ UNCHANGED recordVars
    /\ UNCHANGED signatureVars
    /\ UNCHANGED inputVars
    /\ UNCHANGED imageVars
    /\ UNCHANGED bufferVars
    /\ UNCHANGED internVars
    /\ UNCHANGED artifactVars
    /\ UNCHANGED filterVars
    /\ UNCHANGED formatVars
    /\ UNCHANGED oleVars
    /\ UNCHANGED viewerVars

\* One call or return of build_path_recursive.
StepWalk ==
    /\ walk.phase \in {"call", "ret"}
    /\ ~WalkDone(walk)
    /\ walk' = WalkStep(path_info, walk)
    /\ UNCHANGED <<max_path_depth, path_info, path_cache>>
    /\ UNCHANGED <<timelineVars, parseVars, scanVars>>
    /\ UNCHANGED convertVars
    /\ UNCHANGED recordVars
    /\ UNCHANGED signatureVars
    /\ UNCHANGED inputVars
    /\ UNCHANGED imageVars
    /\ UNCHANGED bufferVars
    /\ UNCHANGED internVars
    /\ UNCHANGED artifactVars
    /\ UNCHANGED filterVars
    /\ UNCHANGED formatVars
    /\ UNCHANGED oleVars
    /\ UNCHANGED viewerVars

\* Lines 982-983: the outermost call has returned; the result is cached.
FinishWalk ==
    /\ WalkDone(walk)
    /\ path_cache' = (walk.entry :> walk.ret) @@ path_cache
    /\ walk' = [walk EXCEPT !.phase = "done"]
    /\ UNCHANGED <<max_path_depth, path_info>>
    /\ UNCHANGED <<timelineVars, parseVars, scanVars>>
    /\ UNCHANGED convertVars
    /\ UNCHANGED recordVars
    /\ UNCHANGED signatureVars
    /\ UNCHANGED inputVars
    /\ UNCHANGED imageVars
    /\ UNCHANGED bufferVars
    /\ UNCHANGED internVars
    /\ UNCHANGED artifactVars
    /\ UNCHANGED filterVars
    /\ UNCHANGED formatVars
    /\ UNCHANGED oleVars
    /\ UNCHANGED viewerVars

NextWalk ==
    \/ \E entry_id \in RecordNumbers : CachedWalk(entry_id)
    \/ \E entry_id \in RecordNumbers : StartWalk(entry_id)
    \/ StepWalk
    \/ FinishWalk

SpecWalk == InitWalk /\ [][NextWalk]_vars

(***************************************************************************)
(* Claims about one invocation of build_path_recursive.                    *)
(***************************************************************************)
\* The distinct record numbers on the parent chain that starts at id: id, its
\* parent, the parent's parent, ... up to the first record with no path info
\* or the first repetition.
RECURSIVE ParentChain(_, _, _)
ParentChain(info, id, seen) ==
    IF id \in seen THEN seen
    ELSE IF id \in DOMAIN info
         THEN ParentChain(info, info[id].parent_id, seen \cup {id})
         ELSE seen \cup {id}

ChainLength(info, id) == Cardinality(ParentChain(info, id, {}))

\* C1: for every path-info map (cycles, self-parents, parent 0 and absent
\* parents included) and every starting record, an invocation of
\* build_path_recursive makes at most one call more than there are distinct
\* record numbers on the parent chain of the starting record, at every moment
\* of the invocation, and it never holds more active calls than it has made.
C1_CallsBoundedByChain ==
    walk.calls > 0 =>
        /\ walk.calls <= 1 + ChainLength(path_info, walk.entry)
        /\ Len(walk.stack) <= walk.calls

\* C1 witness: an invocation on a parent cycle of two or more records has
\* returned after exactly one call more than the cycle has records.
C1_Witness ==
    /\ walk.phase = "done"
    /\ walk.calls > 0
    /\ ChainLength(path_info, walk.entry) >= 2
    /\ walk.calls = 1 + ChainLength(path_info, walk.entry)
    /\ Contains(walk.ret, CyclePrefix)

\* C2 (the claim as stated): the recursion never goes deeper than the
\* configured max_path_depth, and a chain longer than max_path_depth ends
\* in a path tagged [Cycle-<id>].
C2_DepthWithinConfigured ==
    /\ walk.depth <= max_path_depth
    /\ (walk.phase = "done"
          /\ ChainLength(path_info, walk.entry) > max_path_depth)
        => Contains(walk.ret, CyclePrefix)

\* The reference rules as the specification words them: the cache is
\* consulted first, and a record below a parent other than the root is the
\* parent's path, "/" and the filename.
RECURSIVE C3_StatedPath(_, _, _, _)
C3_StatedPath(cache, info, id, visited) ==
    IF id \in DOMAIN cache THEN cache[id]
    ELSE IF id = RootRecord THEN EmptyString
    ELSE IF id \in visited THEN CycleTag(id)
    ELSE IF id \notin DOMAIN info THEN NotFoundTag(id)
    ELSE IF info[id].parent_id = RootRecord THEN info[id].filename
    ELSE IF info[id].parent_id \in {id, 0} THEN OrphanedPath(info[id].filename)
    ELSE JoinPath(C3_StatedPath(cache, info, info[id].parent_id,
                                visited \cup {id}),
                  info[id].filename)

\* The reference rules with two amendments: the path of the parent is
\* computed without consulting the cache, and a record whose parent's path
\* is empty resolves to its bare filename.
RECURSIVE C3_AmendedPath(_, _, _)
C3_AmendedPath(info, id, visited) ==
    IF id = RootRecord THEN EmptyString
    ELSE IF id \in visited THEN CycleTag(id)
    ELSE IF id \notin DOMAIN info THEN NotFoundTag(id)
    ELSE IF info[id].parent_id = RootRecord THEN info[id].filename
    ELSE IF info[id].parent_id \in {id, 0} THEN OrphanedPath(info[id].filename)
    ELSE LET p == C3_AmendedPath(info, info[id].parent_id, visited \cup {id})
         IN  IF p = EmptyString THEN info[id].filename
             ELSE JoinPath(p, info[id].filename)

\* path_cache as get_full_path_for_record found it when the call that has
\* just returned began.
C3_CacheAtCall ==
    IF walk.calls = 0 THEN path_cache
    ELSE [id \in DOMAIN path_cache \ {walk.entry} |-> path_cache[id]]

\* C3 (the claim as stated): the string get_full_path_for_record returns is
\* the result of the reference rules, the last of which is
\* full_path(parent) + "/" + filename.
C3_ResultEqualsStatedRules ==
    walk.phase = "done" =>
        walk.ret = C3_StatedPath(C3_CacheAtCall, path_info, walk.entry, {})

\* C3 (amended): the string get_full_path_for_record returns is the cached
\* string on a cache hit and otherwise the result of the amended rules (no
\* cache below the top call; bare filename when the parent's path is empty);
\* every cached string is itself a result of the amended rules.
C3_ResultEqualsAmendedRules ==
    /\ walk.phase = "done" =>
           walk.ret = IF walk.calls = 0 THEN path_cache[walk.entry]
                      ELSE C3_AmendedPath(path_info, walk.entry, {})
    /\ \A id \in DOMAIN path_cache :
           path_cache[id] = C3_AmendedPath(path_info, id, {})

\* C3 witness: a record whose parent is a record with an empty filename
\* directly below the root has been resolved by the recursion, to its bare
\* filename.
C3_Witness ==
    /\ walk.phase = "done"
    /\ walk.calls = 2
    /\ walk.entry \in DOMAIN path_info
    /\ path_info[walk.entry].parent_id \in DOMAIN path_info
    /\ path_info[path_info[walk.entry].parent_id].filename = EmptyString
    /\ path_info[path_info[walk.entry].parent_id].parent_id = RootRecord
    /\ walk.ret = path_info[walk.entry].filename
    /\ walk.ret # EmptyString

\* id lies on a parent cycle of two or more records: following parent_id
\* from id leads back to id through records that all have path info.
RECURSIVE C4_ReturnsTo(_, _, _, _)
C4_ReturnsTo(info, start, cur, steps) ==
    /\ cur \in DOMAIN info
    /\ \/ info[cur].parent_id = start
       \/ steps > 0 /\ C4_ReturnsTo(info, start, info[cur].parent_id, steps - 1)

C4_OnCycle(info, id) ==
    /\ C4_ReturnsTo(info, id, id, Cardinality(DOMAIN info))
    /\ info[id].parent_id # id

None == << >>
Some(t) == <<t>>

\* TimestampType::sort_priority
sort_priority(timestamp_type) ==
    CASE timestamp_type = "Created" -> 0
      [] timestamp_type = "Modified" -> 1
      [] timestamp_type = "MftModified" -> 2
      [] timestamp_type = "Accessed" -> 3

\* TimestampSource::short_form, as the bytes of the &'static str:
\* "$STANDARD_INFORMATION" and "$FILE_NAME".
short_form(timestamp_source) ==
    CASE timestamp_source = "StandardInformation" ->
            <<36, 83, 84, 65, 78, 68, 65, 82, 68, 95,
              73, 78, 70, 79, 82, 77, 65, 84, 73, 79, 78>>
      [] timestamp_source = "FileName" ->
            <<36, 70, 73, 76, 69, 95, 78, 65, 77, 69>>

\* Ord for i64 / u8, as std::cmp::Ordering.
CompareInt(a, b) ==
    IF a < b THEN "Less" ELSE IF a > b THEN "Greater" ELSE "Equal"

\* Ord for str: bytewise lexicographic, a proper prefix is Less.
RECURSIVE CompareBytes(_, _, _)
CompareBytes(a, b, i) ==
    IF i > Len(a) /\ i > Len(b) THEN "Equal"
    ELSE IF i > Len(a) THEN "Less"
    ELSE IF i > Len(b) THEN "Greater"
    ELSE IF a[i] # b[i] THEN CompareInt(a[i], b[i])
    ELSE CompareBytes(a, b, i + 1)

\* A comparator that puts $STANDARD_INFORMATION before $FILE_NAME, as the
\* comment above the closure says.
compare_events_si_first(a, b) ==
    IF a.timestamp # b.timestamp THEN CompareInt(a.timestamp, b.timestamp)
    ELSE IF sort_priority(a.timestamp_type) # sort_priority(b.timestamp_type)
    THEN CompareInt(sort_priority(a.timestamp_type),
                    sort_priority(b.timestamp_type))
    ELSE IF a.timestamp_source = b.timestamp_source THEN "Equal"
    ELSE IF a.timestamp_source = "StandardInformation" THEN "Less"
    ELSE "Greater"

\* The closure handed to sort_unstable_by and par_sort_unstable_by.
compare_events(a, b) ==
    IF a.timestamp # b.timestamp THEN CompareInt(a.timestamp, b.timestamp)
    ELSE IF sort_priority(a.timestamp_type) # sort_priority(b.timestamp_type)
    THEN CompareInt(sort_priority(a.timestamp_type),
                    sort_priority(b.timestamp_type))
    ELSE CompareBytes(short_form(a.timestamp_source),
                      short_form(b.timestamp_source), 1)

\* Option::unwrap_or
UnwrapOr(option, default) == IF option = None THEN default ELSE option[1]

\* An extraction that pushes an event for an absent timestamp too.
PushEventUnchecked(record, ts, timestamp_type, timestamp_source) ==
    <<[filename |-> UnwrapOr(record.filename, <<"N", "/", "A">>),
       timestamp |-> IF ts = None THEN 0 ELSE ts[1],
       timestamp_type |-> timestamp_type,
       timestamp_source |-> timestamp_source,
       mft_record_number |-> record.record_number,
       location |-> UnwrapOr(record.location, <<"\\">>)]>>

\* if let Some(ts) = ... { events.push(TimelineEvent { .. }) }
PushEvent(record, ts, timestamp_type, timestamp_source) ==
    IF ts = None THEN << >>
    ELSE <<[filename |-> UnwrapOr(record.filename, <<"N", "/", "A">>),
            timestamp |-> ts[1],
            timestamp_type |-> timestamp_type,
            timestamp_source |-> timestamp_source,
            mft_record_number |-> record.record_number,
            location |-> UnwrapOr(record.location, <<"\\">>)]>>

\* Event::extract_timeline_events: the four $STANDARD_INFORMATION pushes,
\* then the four $FILE_NAME pushes.
extract_timeline_events(record) ==
    PushEvent(record, record.timestamps.created,
              "Created", "StandardInformation")
    \o PushEvent(record, record.timestamps.modified,
                 "Modified", "StandardInformation")
    \o PushEvent(record, record.timestamps.mft_modified,
                 "MftModified", "StandardInformation")
    \o PushEvent(record, record.timestamps.accessed,
                 "Accessed", "StandardInformation")
    \o PushEvent(record, record.fn_timestamps.created,
                 "Created", "FileName")
    \o PushEvent(record, record.fn_timestamps.modified,
                 "Modified", "FileName")
    \o PushEvent(record, record.fn_timestamps.mft_modified,
                 "MftModified", "FileName")
    \o PushEvent(record, record.fn_timestamps.accessed,
                 "Accessed", "FileName")

\* records.par_iter().map(extract_timeline_events).flat_map(..).collect():
\* rayon keeps the order of the records.
RECURSIVE ExtractAll(_, _)
ExtractAll(recs, i) ==
    IF i > Len(recs) THEN << >>
    ELSE extract_timeline_events(recs[i]) \o ExtractAll(recs, i + 1)

\* One insertion of the sort.  An unstable sort may leave elements that
\* compare Equal in either order: under "stable" e goes behind the elements
\* Equal to it, under "reversed" in front of them.
InsertEvent(sorted, e, policy) ==
    LET k == Cardinality({i \in 1..Len(sorted) :
                 LET c == compare_events(sorted[i], e)
                 IN  c = "Less" \/ (c = "Equal" /\ policy = "stable")})
    IN  SubSeq(sorted, 1, k) \o <<e>> \o SubSeq(sorted, k + 1, Len(sorted))

\* slice::sort_unstable_by(compare_events) as this build performs it.
RECURSIVE sort_unstable_by(_, _, _)
sort_unstable_by(v, i, policy) ==
    IF i = 0 THEN << >>
    ELSE InsertEvent(sort_unstable_by(v, i - 1, policy), v[i], policy)

\* rayon's par_sort_unstable_by(compare_events): the same contract.
par_sort_unstable_by(v, policy) == sort_unstable_by(v, Len(v), policy)

(***************************************************************************)
(* SpecTimeline: write_timeline and build_timeline_simple on one or two    *)
(* decoded records, for every pattern of present timestamps of the first.  *)
(***************************************************************************)
TimestampChoices == {None} \cup {Some(t) : t \in 1..MaxTimestamp}

FourTimestamps(choices) ==
    [created : choices, modified : choices,
     mft_modified : choices, accessed : choices]

\* The first record: any $STANDARD_INFORMATION timestamps, any pattern of
\* present $FILE_NAME timestamps.
FirstRecords ==
    [record_number : {6}, filename : {Some(<<"a">>)},
     location : {Some(<<"a">>)},
     timestamps : FourTimestamps(TimestampChoices),
     fn_timestamps : FourTimestamps({None, Some(1)})]

\* The second record: one value for its four $STANDARD_INFORMATION
\* timestamps and one for its four $FILE_NAME timestamps.
SecondRecords ==
    {[record_number |-> 7, filename |-> Some(<<"f", "7">>),
      location |-> None,
      timestamps |-> [created |-> si, modified |-> si,
                      mft_modified |-> si, accessed |-> si],
      fn_timestamps |-> [created |-> fn, modified |-> fn,
                         mft_modified |-> fn, accessed |-> fn]] :
        si \in TimestampChoices, fn \in TimestampChoices}

InitTimeline ==
    /\ tie_policy \in {"stable", "reversed"}
    /\ records \in {<<first>> : first \in FirstRecords}
                   \cup (FirstRecords \X SecondRecords)
    /\ events = << >>
    /\ sorted_events = << >>
    /\ sorted_by = "none"
    /\ max_path_depth = OptimizedPathDepth
    /\ path_info = EmptyMap
    /\ path_cache = EmptyMap
    /\ walk = NoWalk
    /\ ParseIdle
    /\ ScanIdle
    /\ ConvertIdle
    /\ RecordIdle
    /\ SignatureIdle
    /\ InputIdle
    /\ ImageIdle
    /\ BufferIdle
    /\ InternIdle
    /\ ArtifactIdle
    /\ FilterIdle
    /\ FormatIdle
    /\ OleIdle
    /\ ViewerIdle

\* OutputWriter::write_timeline, lines 59-100: extraction and sort.
write_timeline ==
    /\ sorted_by = "none"
    /\ events' = ExtractAll(records, 1)
    /\ sorted_events' = sort_unstable_by(events', Len(events'), tie_policy)
    /\ sorted_by' = "write_timeline"
    /\ UNCHANGED <<tie_policy, records, walkVars, parseVars, scanVars>>
    /\ UNCHANGED convertVars
    /\ UNCHANGED recordVars
    /\ UNCHANGED signatureVars
    /\ UNCHANGED inputVars
    /\ UNCHANGED imageVars
    /\ UNCHANGED bufferVars
    /\ UNCHANGED internVars
    /\ UNCHANGED artifactVars
    /\ UNCHANGED filterVars
    /\ UNCHANGED formatVars
    /\ UNCHANGED oleVars
    /\ UNCHANGED viewerVars

\* build_timeline_simple, lines 277-312: extraction, then the parallel sort
\* above ParallelSortThreshold events and the sequential one otherwise.
build_timeline_simple ==
    /\ sorted_by = "none"
    /\ events' = ExtractAll(records, 1)
    /\ sorted_events' =
           IF Len(events') > ParallelSortThreshold
           THEN par_sort_unstable_by(events', tie_policy)
           ELSE sort_unstable_by(events', Len(events'), tie_policy)
    /\ sorted_by' = "build_timeline_simple"
    /\ UNCHANGED <<tie_policy, records, walkVars, parseVars, scanVars>>
    /\ UNCHANGED convertVars
    /\ UNCHANGED recordVars
    /\ UNCHANGED signatureVars
    /\ UNCHANGED inputVars
    /\ UNCHANGED imageVars
    /\ UNCHANGED bufferVars
    /\ UNCHANGED internVars
    /\ UNCHANGED artifactVars
    /\ UNCHANGED filterVars
    /\ UNCHANGED formatVars
    /\ UNCHANGED oleVars
    /\ UNCHANGED viewerVars

NextTimeline == write_timeline \/ build_timeline_simple

SpecTimeline == InitTimeline /\ [][NextTimeline]_vars

(***************************************************************************)
(* Claims about the timeline assembler.                                    *)
(***************************************************************************)
\* The sort keys as the specification words them.
C6_KindPriority(e) ==
    CASE e.timestamp_type = "Created" -> 0
      [] e.timestamp_type = "Modified" -> 1
      [] e.timestamp_type = "MftModified" -> 2
      [] e.timestamp_type = "Accessed" -> 3

\* "$FILE_NAME" is ordered before "$STANDARD_INFORMATION".
C6_ProvenanceRank(e) == IF e.timestamp_source = "FileName" THEN 0 ELSE 1

C6_KeyLessEq(a, b) ==
    \/ a.timestamp < b.timestamp
    \/ /\ a.timestamp = b.timestamp
       /\ \/ C6_KindPriority(a) < C6_KindPriority(b)
          \/ /\ C6_KindPriority(a) = C6_KindPriority(b)
             /\ C6_ProvenanceRank(a) <= C6_ProvenanceRank(b)

C6_Occurrences(v, e) == Cardinality({i \in 1..Len(v) : v[i] = e})

C7_ExtractedAt(e) == CHOOSE i \in 1..Len(events) : events[i] = e

\* C7 (the claim as stated): two events equal on timestamp, kind and
\* provenance stand in the sorted output in the order in which they were
\* extracted.
C7_SortIsStable ==
    sorted_by # "none" =>
        \A i, j \in 1..Len(sorted_events) :
            (/\ i < j
             /\ sorted_events[i].timestamp = sorted_events[j].timestamp
             /\ sorted_events[i].timestamp_type
                   = sorted_events[j].timestamp_type
             /\ sorted_events[i].timestamp_source
                   = sorted_events[j].timestamp_source)
                => C7_ExtractedAt(sorted_events[i])
                     < C7_ExtractedAt(sorted_events[j])

\* The timestamp a record holds in a (kind, provenance) slot.
C9_Slot(record, timestamp_type, timestamp_source) ==
    LET four == IF timestamp_source = "StandardInformation"
                THEN record.timestamps ELSE record.fn_timestamps
    IN  CASE timestamp_type = "Created" -> four.created
          [] timestamp_type = "Modified" -> four.modified
          [] timestamp_type = "MftModified" -> four.mft_modified
          [] timestamp_type = "Accessed" -> four.accessed

C9_Slots ==
    {"Created", "Modified", "MftModified", "Accessed"}
        \X {"StandardInformation", "FileName"}

C9_Present(record) == {s \in C9_Slots : C9_Slot(record, s[1], s[2]) # None}

C9_EventsOf(record) ==
    {i \in 1..Len(events) :
        events[i].mft_record_number = record.record_number}

\* C9: for every record, the extracted events of the record are exactly as
\* many as the record has present timestamps, one for each present
\* (kind, provenance) slot with that slot's timestamp, and none for an
\* absent slot.
C9_OneEventPerPresentSlot ==
    sorted_by # "none" =>
        \A r \in 1..Len(records) :
            /\ Cardinality(C9_EventsOf(records[r]))
                  = Cardinality(C9_Present(records[r]))
            /\ \A s \in C9_Present(records[r]) :
                  Cardinality({i \in C9_EventsOf(records[r]) :
                      /\ events[i].timestamp_type = s[1]
                      /\ events[i].timestamp_source = s[2]
                      /\ events[i].timestamp
                            = C9_Slot(records[r], s[1], s[2])[1]}) = 1
            /\ \A i \in C9_EventsOf(records[r]) :
                  <<events[i].timestamp_type, events[i].timestamp_source>>
                      \in C9_Present(records[r])

\* C9 witness: extraction has run on a record with some but not all of its
\* eight timestamps present, absent ones on both attributes, and has
\* produced that many events.
C9_Witness ==
    /\ sorted_by = "write_timeline"
    /\ Cardinality(C9_Present(records[1])) = 5
    /\ records[1].timestamps.modified = None
    /\ records[1].fn_timestamps.created = None
    /\ Cardinality(C9_EventsOf(records[1])) = 5

(***************************************************************************)
(* SpecParse: parse_mft_data_parallel on a buffer with two FILE records,   *)
(* then write_timeline, run twice by two fresh parsers.  The buffer is     *)
(* longer than 256 KiB and holds no other signature; with more worker      *)
(* threads than boundaries every record is a chunk of its own.  Each       *)
(* worker's intern call is two steps, the pool lookup and the pool insert, *)
(* as StringPool takes no lock across them.                                *)
(***************************************************************************)
\* The record numbers of the two FILE records, in boundary order.
ParseOrder == <<6, 7>>

ParseRecords == {ParseOrder[i] : i \in 1..Len(ParseOrder)}

\* Two names whose UTF-16LE bytes have one FNV-1a hash (6d762519e6928c50),
\* two names whose UTF-8 bytes have one FNV-1a hash (ae850e0b2fd6ecf5), and
\* a short name.
ParseFileNames ==
    {<<"a">>,
     <<"j", "p", "i", "e", "n", "a", "g", "c", "c", "m", "p", "b", "i", "p", "c", "n">>,
     <<"i", "m", "c", "h", "i", "f", "i", "i", "c", "d", "i", "l", "a", "c", "j", "o">>,
     <<"j", "h", "e", "e", "n", "e", "j", "h", "n", "n", "m", "f", "b", "e", "d", "k">>,
     <<"d", "m", "e", "m", "e", "p", "m", "j", "l", "a", "c", "k", "n", "m", "l", "i">>}

\* What parse_file_name_fast and parse_standard_information read from a
\* record: the name bytes, the parent reference, the SI created time.
ParseInputs ==
    [ParseRecords ->
        [filename_bytes : {Utf16Bytes(name) : name \in ParseFileNames},
         parent_entry : {RootRecord} \cup ParseRecords,
         created : {Some(1)}]]

NoTimestamps ==
    [created |-> None, modified |-> None,
     mft_modified |-> None, accessed |-> None]

\* convert_entry_to_record_fast: the Event of record r with the interned
\* name.
DecodedEvent(r, name) ==
    [record_number |-> r, filename |-> Some(name),
     parent_directory |-> Some(mft[r].parent_entry), location |-> None,
     timestamps |-> [NoTimestamps EXCEPT !.created = mft[r].created],
     fn_timestamps |-> NoTimestamps]

AllAt(positions) == \A r \in ParseRecords : pc[r] \in positions

FreshParser ==
    /\ string_pool = EmptyMap
    /\ path_info = EmptyMap
    /\ path_cache = EmptyMap
    /\ all_records = EmptyMap
    /\ pc = [r \in ParseRecords |-> "decode"]
    /\ found = [r \in ParseRecords |-> EmptyString]
    /\ pool_at_paths = EmptyMap

InitParse ==
    /\ mft \in ParseInputs
    /\ tie_policy \in {"stable", "reversed"}
    /\ FreshParser
    /\ rows = << >>
    /\ max_path_depth = OptimizedPathDepth
    /\ walk = NoWalk
    /\ records = << >>
    /\ events = << >>
    /\ sorted_events = << >>
    /\ sorted_by = "none"
    /\ ScanIdle
    /\ ConvertIdle
    /\ RecordIdle
    /\ SignatureIdle
    /\ InputIdle
    /\ ImageIdle
    /\ BufferIdle
    /\ InternIdle
    /\ ArtifactIdle
    /\ FilterIdle
    /\ FormatIdle
    /\ OleIdle
    /\ ViewerIdle

\* parse_file_name_fast -> intern_utf16, lines 39-47: the hash is in the
\* pool and its string is the name, or the name is decoded.
DecodeLookup(r) ==
    /\ pc[r] = "decode"
    /\ LET hash == fast_hash(mft[r].filename_bytes)
       IN  IF hash \in DOMAIN string_pool
           THEN /\ all_records' =
                      (r :> DecodedEvent(r, string_pool[hash])) @@ all_records
                /\ pc' = [pc EXCEPT ![r] = "decoded"]
                /\ found' = found
           ELSE /\ found' =
                      [found EXCEPT ![r] = FromUtf16(mft[r].filename_bytes)]
                /\ pc' = [pc EXCEPT ![r] = "decode_missed"]
                /\ all_records' = all_records
    /\ UNCHANGED <<mft, string_pool, pool_at_paths, rows>>
    /\ UNCHANGED <<walkVars, timelineVars, scanVars>>
    /\ UNCHANGED convertVars
    /\ UNCHANGED recordVars
    /\ UNCHANGED signatureVars
    /\ UNCHANGED inputVars
    /\ UNCHANGED imageVars
    /\ UNCHANGED bufferVars
    /\ UNCHANGED internVars
    /\ UNCHANGED artifactVars
    /\ UNCHANGED filterVars
    /\ UNCHANGED formatVars
    /\ UNCHANGED oleVars
    /\ UNCHANGED viewerVars

\* intern_utf16, lines 48-49: the decoded name is inserted (DashMap::insert
\* replaces) and is the record's filename.
DecodeInsert(r) ==
    /\ pc[r] = "decode_missed"
    /\ string_pool' =
           (fast_hash(mft[r].filename_bytes) :> found[r]) @@ string_pool
    /\ all_records' = (r :> DecodedEvent(r, found[r])) @@ all_records
    /\ pc' = [pc EXCEPT ![r] = "decoded"]
    /\ UNCHANGED <<mft, found, pool_at_paths, rows>>
    /\ UNCHANGED <<walkVars, timelineVars, scanVars>>
    /\ UNCHANGED convertVars
    /\ UNCHANGED recordVars
    /\ UNCHANGED signatureVars
    /\ UNCHANGED inputVars
    /\ UNCHANGED imageVars
    /\ UNCHANGED bufferVars
    /\ UNCHANGED internVars
    /\ UNCHANGED artifactVars
    /\ UNCHANGED filterVars
    /\ UNCHANGED formatVars
    /\ UNCHANGED oleVars
    /\ UNCHANGED viewerVars

\* parse_mft_data_parallel line 462: every chunk is collected and
\* build_directory_paths_parallel begins.
BuildPaths ==
    /\ AllAt({"decoded"})
    /\ pc' = [r \in ParseRecords |-> "pass1"]
    /\ pool_at_paths' = string_pool
    /\ UNCHANGED <<mft, string_pool, all_records, found, rows>>
    /\ UNCHANGED <<walkVars, timelineVars, scanVars>>
    /\ UNCHANGED convertVars
    /\ UNCHANGED recordVars
    /\ UNCHANGED signatureVars
    /\ UNCHANGED inputVars
    /\ UNCHANGED imageVars
    /\ UNCHANGED bufferVars
    /\ UNCHANGED internVars
    /\ UNCHANGED artifactVars
    /\ UNCHANGED filterVars
    /\ UNCHANGED formatVars
    /\ UNCHANGED oleVars
    /\ UNCHANGED viewerVars

\* struct PathInfo of record r with the interned filename.
PathInfoFor(r, name) ==
    [filename |-> name,
     parent_id |-> UnwrapOr(all_records[r].parent_directory, 0)]

\* Pass 1, lines 935-942, up to the pool lookup of intern: on a hit the
\* stored string goes into path_info.
Pass1Lookup(r) ==
    /\ pc[r] = "pass1"
    /\ LET bytes == AsBytes(all_records[r].filename[1])
           hash == fast_hash(bytes)
       IN  IF hash \in DOMAIN string_pool
           THEN /\ path_info' =
                      (r :> PathInfoFor(r, string_pool[hash])) @@ path_info
                /\ pc' = [pc EXCEPT ![r] = "pass2"]
                /\ found' = found
           ELSE /\ found' = [found EXCEPT ![r] = FromUtf8Lossy(bytes)]
                /\ pc' = [pc EXCEPT ![r] = "pass1_missed"]
                /\ path_info' = path_info
    /\ UNCHANGED <<max_path_depth, path_cache, walk>>
    /\ UNCHANGED <<mft, string_pool, all_records, pool_at_paths, rows>>
    /\ UNCHANGED <<timelineVars, scanVars>>
    /\ UNCHANGED convertVars
    /\ UNCHANGED recordVars
    /\ UNCHANGED signatureVars
    /\ UNCHANGED inputVars
    /\ UNCHANGED imageVars
    /\ UNCHANGED bufferVars
    /\ UNCHANGED internVars
    /\ UNCHANGED artifactVars
    /\ UNCHANGED filterVars
    /\ UNCHANGED formatVars
    /\ UNCHANGED oleVars
    /\ UNCHANGED viewerVars

\* Pass 1 after a pool miss: intern inserts its string, path_info.insert.
Pass1Insert(r) ==
    /\ pc[r] = "pass1_missed"
    /\ string_pool' =
           (fast_hash(AsBytes(all_records[r].filename[1])) :> found[r])
               @@ string_pool
    /\ path_info' = (r :> PathInfoFor(r, found[r])) @@ path_info
    /\ pc' = [pc EXCEPT ![r] = "pass2"]
    /\ UNCHANGED <<max_path_depth, path_cache, walk>>
    /\ UNCHANGED <<mft, all_records, found, pool_at_paths, rows>>
    /\ UNCHANGED <<timelineVars, scanVars>>
    /\ UNCHANGED convertVars
    /\ UNCHANGED recordVars
    /\ UNCHANGED signatureVars
    /\ UNCHANGED inputVars
    /\ UNCHANGED imageVars
    /\ UNCHANGED bufferVars
    /\ UNCHANGED internVars
    /\ UNCHANGED artifactVars
    /\ UNCHANGED filterVars
    /\ UNCHANGED formatVars
    /\ UNCHANGED oleVars
    /\ UNCHANGED viewerVars

\* Pass 2, get_full_path_for_record lines 974-979: the cached string is the
\* location, or the path is computed.  Pass 2 begins when pass 1 has ended.
Pass2Lookup(r) ==
    /\ pc[r] = "pass2"
    /\ AllAt({"pass2", "pass2_computed", "done"})
    /\ IF r \in DOMAIN path_cache
       THEN /\ all_records' =
                  [all_records EXCEPT ![r].location = Some(path_cache[r])]
            /\ pc' = [pc EXCEPT ![r] = "done"]
            /\ found' = found
       ELSE /\ found' = [found EXCEPT ![r] = build_path_recursive(path_info, r)]
            /\ pc' = [pc EXCEPT ![r] = "pass2_computed"]
            /\ all_records' = all_records
    /\ UNCHANGED <<mft, string_pool, pool_at_paths, rows>>
    /\ UNCHANGED <<walkVars, timelineVars, scanVars>>
    /\ UNCHANGED convertVars
    /\ UNCHANGED recordVars
    /\ UNCHANGED signatureVars
    /\ UNCHANGED inputVars
    /\ UNCHANGED imageVars
    /\ UNCHANGED bufferVars
    /\ UNCHANGED internVars
    /\ UNCHANGED artifactVars
    /\ UNCHANGED filterVars
    /\ UNCHANGED formatVars
    /\ UNCHANGED oleVars
    /\ UNCHANGED viewerVars

\* Pass 2, lines 982-983 and 948: the cache insert and record.location.
Pass2Insert(r) ==
    /\ pc[r] = "pass2_computed"
    /\ path_cache' = (r :> found[r]) @@ path_cache
    /\ all_records' = [all_records EXCEPT ![r].location = Some(found[r])]
    /\ pc' = [pc EXCEPT ![r] = "done"]
    /\ UNCHANGED <<max_path_depth, path_info, walk>>
    /\ UNCHANGED <<mft, string_pool, found, pool_at_paths, rows>>
    /\ UNCHANGED <<timelineVars, scanVars>>
    /\ UNCHANGED convertVars
    /\ UNCHANGED recordVars
    /\ UNCHANGED signatureVars
    /\ UNCHANGED inputVars
    /\ UNCHANGED imageVars
    /\ UNCHANGED bufferVars
    /\ UNCHANGED internVars
    /\ UNCHANGED artifactVars
    /\ UNCHANGED filterVars
    /\ UNCHANGED formatVars
    /\ UNCHANGED oleVars
    /\ UNCHANGED viewerVars

\* write_timeline lines 116-151: the fields of one written row.
Row(e) ==
    [filename |-> e.filename, timestamp |-> e.timestamp,
     timestamp_type |-> e.timestamp_type,
     timestamp_source |-> e.timestamp_source, location |-> e.location]

\* write_timeline on the records parse returned, in boundary order.
TimelineRows(recs) ==
    LET v == ExtractAll([i \in 1..Len(ParseOrder) |-> recs[ParseOrder[i]]], 1)
        sorted == sort_unstable_by(v, Len(v), tie_policy)
    IN  [i \in 1..Len(sorted) |-> Row(sorted[i])]

\* The run ends: parse returns and write_timeline writes the rows.
FinishRun ==
    /\ AllAt({"done"})
    /\ rows' = Append(rows, TimelineRows(all_records))
    /\ pc' = [r \in ParseRecords |-> "written"]
    /\ UNCHANGED <<mft, string_pool, all_records, found, pool_at_paths>>
    /\ UNCHANGED <<walkVars, timelineVars, scanVars>>
    /\ UNCHANGED convertVars
    /\ UNCHANGED recordVars
    /\ UNCHANGED signatureVars
    /\ UNCHANGED inputVars
    /\ UNCHANGED imageVars
    /\ UNCHANGED bufferVars
    /\ UNCHANGED internVars
    /\ UNCHANGED artifactVars
    /\ UNCHANGED filterVars
    /\ UNCHANGED formatVars
    /\ UNCHANGED oleVars
    /\ UNCHANGED viewerVars

\* The second, independent run on the same buffer: MftParser::new().
SecondRun ==
    /\ AllAt({"written"})
    /\ Len(rows) = 1
    /\ string_pool' = EmptyMap
    /\ path_info' = EmptyMap
    /\ path_cache' = EmptyMap
    /\ all_records' = EmptyMap
    /\ pc' = [r \in ParseRecords |-> "decode"]
    /\ found' = [r \in ParseRecords |-> EmptyString]
    /\ pool_at_paths' = EmptyMap
    /\ UNCHANGED <<max_path_depth, walk, mft, rows, timelineVars, scanVars>>
    /\ UNCHANGED convertVars
    /\ UNCHANGED recordVars
    /\ UNCHANGED signatureVars
    /\ UNCHANGED inputVars
    /\ UNCHANGED imageVars
    /\ UNCHANGED bufferVars
    /\ UNCHANGED internVars
    /\ UNCHANGED artifactVars
    /\ UNCHANGED filterVars
    /\ UNCHANGED formatVars
    /\ UNCHANGED oleVars
    /\ UNCHANGED viewerVars

NextParse ==
    \/ \E r \in ParseRecords : DecodeLookup(r)
    \/ \E r \in ParseRecords : DecodeInsert(r)
    \/ BuildPaths
    \/ \E r \in ParseRecords : Pass1Lookup(r)
    \/ \E r \in ParseRecords : Pass1Insert(r)
    \/ \E r \in ParseRecords : Pass2Lookup(r)
    \/ \E r \in ParseRecords : Pass2Insert(r)
    \/ FinishRun
    \/ SecondRun

SpecParse == InitParse /\ [][NextParse]_vars

(***************************************************************************)
(* build_directory_paths_sequential, for the comparison of the claim about *)
(* build_directory_paths_parallel.                                         *)
(***************************************************************************)
\* Lines 955-963: pass 1 over the records from the i-th on, in order.
RECURSIVE SequentialPass1(_, _, _, _)
SequentialPass1(recs, i, pool, info) ==
    IF i > Len(ParseOrder) THEN info
    ELSE LET r == ParseOrder[i]
             bytes == AsBytes(recs[r].filename[1])
             entry == [filename |-> InternString(pool, bytes),
                       parent_id |-> UnwrapOr(recs[r].parent_directory, 0)]
         IN  SequentialPass1(recs, i + 1, InternPool(pool, bytes),
                             (r :> entry) @@ info)

\* Lines 966-968: pass 2 over the records from the i-th on, in order;
\* the result is the location of every record.
RECURSIVE SequentialPass2(_, _, _, _)
SequentialPass2(i, info, cache, locations) ==
    IF i > Len(ParseOrder) THEN locations
    ELSE LET r == ParseOrder[i]
             path == IF r \in DOMAIN cache THEN cache[r]
                     ELSE build_path_recursive(info, r)
         IN  SequentialPass2(i + 1, info, (r :> path) @@ cache,
                             (r :> Some(path)) @@ locations)

\* build_directory_paths_sequential on records recs by a parser whose pool
\* is `pool` and whose path_info and path_cache are empty.
build_directory_paths_sequential(recs, pool) ==
    SequentialPass2(1, SequentialPass1(recs, 1, pool, EmptyMap),
                    EmptyMap, EmptyMap)

(***************************************************************************)
(* Claims about the parallel parse.                                        *)
(***************************************************************************)
\* C5 (the claim as stated): when build_directory_paths_parallel has
\* ended, each record's location is the location
\* build_directory_paths_sequential computes on the same records (by the
\* parser as it was when path building began), and a worker about to insert
\* into path_cache under a key that is present carries the installed string.
C5_ParallelEqualsSequential ==
    /\ AllAt({"done"}) =>
           \A r \in ParseRecords :
               all_records[r].location =
                   build_directory_paths_sequential(all_records,
                                                    pool_at_paths)[r]
    /\ \A r \in DOMAIN pc :
           (pc[r] = "pass2_computed" /\ r \in DOMAIN path_cache)
               => found[r] = path_cache[r]

\* C8 (the claim as stated): the two runs on one buffer write the same
\* sequence of rows.
C8_RunsWriteSameRows == Len(rows) = 2 => rows[1] = rows[2]

(***************************************************************************)
(* The record boundary scanner: scan_boundaries_scalar (mft.rs) and        *)
(* scan_record_boundaries_simd (simd_optimize.rs).  A buffer is its length *)
(* and, for each 1024-byte chunk, the bytes the scanner reads: the first   *)
(* four, or fewer when the last chunk is shorter.                          *)
(***************************************************************************)
\* u32::from_le_bytes, as the low and the high 16 bits.
from_le_bytes(b) == <<b[1] + 256 * b[2], b[3] + 256 * b[4]>>

\* 0x454C4946 and 0x44414142
FILE_SIG_PATTERN == <<18758, 17740>>
BAAD_SIG_PATTERN == <<16706, 17473>>

\* b"FILE"
FileSignature == <<70, 73, 76, 69>>

\* data.chunks(1024): how many chunks, and the length of chunk record_idx.
ChunkCount(d) == (d.len + MFT_RECORD_SIZE - 1) \div MFT_RECORD_SIZE

ChunkLen(d, record_idx) ==
    IF d.len - record_idx * MFT_RECORD_SIZE < MFT_RECORD_SIZE
    THEN d.len - record_idx * MFT_RECORD_SIZE
    ELSE MFT_RECORD_SIZE

\* A scanner that takes the FILE signature only.
IsFileSignatureOnly(sig) == sig = FILE_SIG_PATTERN

\* sig == FILE_SIG_PATTERN || sig == BAAD_SIG_PATTERN
IsBoundarySignature(sig) == sig = FILE_SIG_PATTERN \/ sig = BAAD_SIG_PATTERN

\* The loop of both scanners from chunk record_idx on.
RECURSIVE ScanFrom(_, _)
ScanFrom(d, record_idx) ==
    IF record_idx >= ChunkCount(d) THEN << >>
    ELSE LET chunk == d.head[record_idx + 1]
             rest == ScanFrom(d, record_idx + 1)
         IN  IF ChunkLen(d, record_idx) >= 4
                  /\ IsBoundarySignature(from_le_bytes(chunk))
             THEN <<record_idx * MFT_RECORD_SIZE>> \o rest
             ELSE rest

\* parse_mft_data_parallel lines 422-425 and parse_single_entry_fast lines
\* 551-560: the boundaries whose record is decoded.
DecodedOffsets(d, bs) ==
    {bs[k] : k \in {j \in 1..Len(bs) :
        /\ bs[j] + MFT_RECORD_SIZE <= d.len
        /\ d.head[(bs[j] \div MFT_RECORD_SIZE) + 1] = FileSignature}}

(***************************************************************************)
(* SpecScan: both scanners on every buffer of up to MaxChunks full records *)
(* and a trailing partial record.                                          *)
(***************************************************************************)
\* The first four bytes of a chunk: FILE, BAAD, zeros, FILF, ELIF.
ChunkHeads ==
    {FileSignature, <<66, 65, 65, 68>>, <<0, 0, 0, 0>>,
     <<70, 73, 76, 70>>, <<69, 76, 73, 70>>}

\* A trailing partial record: its length and the bytes the scanner reads.
TailChunks ==
    {[len |-> 3, head |-> h] : h \in {<<70, 73, 76>>, <<0, 0, 0>>}}
    \cup {[len |-> n, head |-> h] : n \in {4, MFT_RECORD_SIZE - 1},
                                     h \in ChunkHeads}

RECURSIVE HeadSequences(_)
HeadSequences(n) ==
    IF n = 0 THEN {<< >>}
    ELSE {Append(hs, h) : hs \in HeadSequences(n - 1), h \in ChunkHeads}

ScanInputs ==
    UNION {
        {[len |-> n * MFT_RECORD_SIZE, head |-> hs] : hs \in HeadSequences(n)}
        \cup {[len |-> n * MFT_RECORD_SIZE + t.len, head |-> Append(hs, t.head)] :
                 hs \in HeadSequences(n), t \in TailChunks}
        : n \in 0..MaxChunks}

InitScan ==
    /\ data \in ScanInputs
    /\ boundaries = << >>
    /\ scanner = "none"
    /\ max_path_depth = OptimizedPathDepth
    /\ path_info = EmptyMap
    /\ path_cache = EmptyMap
    /\ walk = NoWalk
    /\ TimelineIdle
    /\ ParseIdle
    /\ ConvertIdle
    /\ RecordIdle
    /\ SignatureIdle
    /\ InputIdle
    /\ ImageIdle
    /\ BufferIdle
    /\ InternIdle
    /\ ArtifactIdle
    /\ FilterIdle
    /\ FormatIdle
    /\ OleIdle
    /\ ViewerIdle

\* MftParser::scan_boundaries_scalar(data)
scan_boundaries_scalar ==
    /\ scanner = "none"
    /\ boundaries' = ScanFrom(data, 0)
    /\ scanner' = "scalar"
    /\ UNCHANGED <<data, walkVars, timelineVars, parseVars>>
    /\ UNCHANGED convertVars
    /\ UNCHANGED recordVars
    /\ UNCHANGED signatureVars
    /\ UNCHANGED inputVars
    /\ UNCHANGED imageVars
    /\ UNCHANGED bufferVars
    /\ UNCHANGED internVars
    /\ UNCHANGED artifactVars
    /\ UNCHANGED filterVars
    /\ UNCHANGED formatVars
    /\ UNCHANGED oleVars
    /\ UNCHANGED viewerVars

\* scan_record_boundaries_simd(data)
scan_record_boundaries_simd ==
    /\ scanner = "none"
    /\ boundaries' = ScanFrom(data, 0)
    /\ scanner' = "simd"
    /\ UNCHANGED <<data, walkVars, timelineVars, parseVars>>
    /\ UNCHANGED convertVars
    /\ UNCHANGED recordVars
    /\ UNCHANGED signatureVars
    /\ UNCHANGED inputVars
    /\ UNCHANGED imageVars
    /\ UNCHANGED bufferVars
    /\ UNCHANGED internVars
    /\ UNCHANGED artifactVars
    /\ UNCHANGED filterVars
    /\ UNCHANGED formatVars
    /\ UNCHANGED oleVars
    /\ UNCHANGED viewerVars

NextScan == scan_boundaries_scalar \/ scan_record_boundaries_simd

SpecScan == InitScan /\ [][NextScan]_vars

(***************************************************************************)
(* Claims about the boundary scanner.                                      *)
(***************************************************************************)
C10_Emitted == {boundaries[k] : k \in 1..Len(boundaries)}

C10_Chunks == 0..(ChunkCount(data) - 1)

\* C10 (the claim as stated): the emitted offsets are exactly the offsets
\* i*1024 of the records that begin with FILE; no offset with another
\* signature and no offset of a trailing partial record is emitted.
C10_EmittedAreFileRecords ==
    scanner # "none" =>
        /\ \A i \in C10_Chunks :
              (data.head[i + 1] = FileSignature
                  /\ (i + 1) * MFT_RECORD_SIZE <= data.len)
                  => i * MFT_RECORD_SIZE \in C10_Emitted
        /\ \A o \in C10_Emitted :
              /\ data.head[(o \div MFT_RECORD_SIZE) + 1] = FileSignature
              /\ o + MFT_RECORD_SIZE <= data.len

\* C10 (amended): both scanners emit, in ascending order, exactly the
\* offsets i*1024 with at least four bytes left in the buffer whose first
\* four bytes are FILE or BAAD, the offset of a trailing partial record
\* included; the offsets whose record is then decoded are exactly those of
\* the full 1024-byte records that begin with FILE.
C10_EmittedAreFileOrBaadChunks ==
    scanner # "none" =>
        /\ C10_Emitted =
              {i * MFT_RECORD_SIZE : i \in {j \in C10_Chunks :
                  /\ j * MFT_RECORD_SIZE + 4 <= data.len
                  /\ data.head[j + 1] \in {FileSignature, <<66, 65, 65, 68>>}}}
        /\ \A k \in 1..(Len(boundaries) - 1) : boundaries[k] < boundaries[k + 1]
        /\ DecodedOffsets(data, boundaries) =
              {i * MFT_RECORD_SIZE : i \in {j \in C10_Chunks :
                  /\ (j + 1) * MFT_RECORD_SIZE <= data.len
                  /\ data.head[j + 1] = FileSignature}}

\* C10 witness: the SIMD scanner has emitted the offset of a BAAD record
\* and the offset of a trailing partial record, next to the offset of a FILE
\* record, and has skipped a record with another signature.
C10_Witness ==
    /\ scanner = "simd"
    /\ \E o \in C10_Emitted :
          data.head[(o \div MFT_RECORD_SIZE) + 1] = <<66, 65, 65, 68>>
    /\ \E o \in C10_Emitted : o + MFT_RECORD_SIZE > data.len
    /\ \E o \in DecodedOffsets(data, boundaries) : TRUE
    /\ Len(boundaries) < ChunkCount(data)

(***************************************************************************)
(* FILETIME conversion: convert_filetime_fast (mft.rs) and                 *)
(* convert_timestamps_simd (simd_optimize.rs).  A u64 is its four 16-bit   *)
(* limbs, low limb first, so that the 64-bit arithmetic is computed with   *)
(* its width.                                                              *)
(***************************************************************************)
\* A natural number below 2^31 as a u64.
U64(n) == <<n % 65536, n \div 65536, 0, 0>>

U64Zero == <<0, 0, 0, 0>>

\* a <= b on u64.
U64LessEq(a, b) ==
    IF a[4] # b[4] THEN a[4] < b[4]
    ELSE IF a[3] # b[3] THEN a[3] < b[3]
    ELSE IF a[2] # b[2] THEN a[2] < b[2]
    ELSE a[1] <= b[1]

\* a + b on u64 (no input of the model makes it overflow).
U64Add(a, b) ==
    LET t1 == a[1] + b[1]
        t2 == a[2] + b[2] + (t1 \div 65536)
        t3 == a[3] + b[3] + (t2 \div 65536)
        t4 == a[4] + b[4] + (t3 \div 65536)
    IN  <<t1 % 65536, t2 % 65536, t3 % 65536, t4 % 65536>>

\* a - b on u64, for b <= a.
U64Sub(a, b) ==
    LET t1 == a[1] - b[1]
        b1 == IF t1 < 0 THEN 1 ELSE 0
        t2 == a[2] - b[2] - b1
        b2 == IF t2 < 0 THEN 1 ELSE 0
        t3 == a[3] - b[3] - b2
        b3 == IF t3 < 0 THEN 1 ELSE 0
        t4 == a[4] - b[4] - b3
    IN  <<(t1 + 65536) % 65536, (t2 + 65536) % 65536,
          (t3 + 65536) % 65536, (t4 + 65536) % 65536>>

\* a * m for a factor m <= 10000: the product modulo 2^64 and whether the
\* exact product is 2^64 or more.
U64MulSmall(a, m) ==
    LET t1 == a[1] * m
        t2 == a[2] * m + (t1 \div 65536)
        t3 == a[3] * m + (t2 \div 65536)
        t4 == a[4] * m + (t3 \div 65536)
    IN  [value |-> <<t1 % 65536, t2 % 65536, t3 % 65536, t4 % 65536>>,
         overflow |-> t4 \div 65536 > 0]

\* a / d and a % d for a divisor d <= 1000.
U64DivSmall(a, d) ==
    LET c4 == a[4]
        c3 == (c4 % d) * 65536 + a[3]
        c2 == (c3 % d) * 65536 + a[2]
        c1 == (c2 % d) * 65536 + a[1]
    IN  [quotient |-> <<c1 \div d, c2 \div d, c3 \div d, c4 \div d>>,
         remainder |-> c1 % d]

\* const FILETIME_UNIX_EPOCH: u64 = 116444736000000000 (0x019DB1DED53E8000)
FILETIME_UNIX_EPOCH == <<32768, 54590, 45534, 413>>

\* (filetime - FILETIME_UNIX_EPOCH) * 100
UnixNanos(ft) == U64MulSmall(U64Sub(ft, FILETIME_UNIX_EPOCH), 100)

\* The multiplication overflows u64: a build with overflow checks panics
\* there, a build without them goes on with the wrapped product.
FiletimeOverflows(ft) ==
    /\ ft # U64Zero
    /\ ~U64LessEq(ft, FILETIME_UNIX_EPOCH)
    /\ UnixNanos(ft).overflow

\* chrono::DateTime::from_timestamp(secs, nanos): Some for every secs the
\* conversion can produce (below 2^64 / 10^9, inside chrono's range).
from_timestamp(secs, nanos) == Some([secs |-> secs, nanos |-> nanos])

\* MftParser::convert_filetime_fast, and the closure of
\* convert_timestamps_simd, in a build that does not panic: unix_nanos /
\* 1_000_000_000 and unix_nanos % 1_000_000_000 by three divisions by 1000.
convert_filetime_fast(ft) ==
    IF ft = U64Zero \/ U64LessEq(ft, FILETIME_UNIX_EPOCH) THEN None
    ELSE LET unix_nanos == UnixNanos(ft).value
             d1 == U64DivSmall(unix_nanos, 1000)
             d2 == U64DivSmall(d1.quotient, 1000)
             d3 == U64DivSmall(d2.quotient, 1000)
         IN  from_timestamp(d3.quotient,
                 d1.remainder + 1000 * d2.remainder + 1000000 * d3.remainder)

\* What a call of the conversion leaves: a panic, or the returned Option.
ConversionOf(ft, checks) ==
    IF checks /\ FiletimeOverflows(ft)
    THEN [panicked |-> TRUE, value |-> None]
    ELSE [panicked |-> FALSE, value |-> convert_filetime_fast(ft)]

(***************************************************************************)
(* SpecConvert: both conversions on FILETIME values around the epoch,      *)
(* around the first value whose nanoseconds exceed u64, and up to 2^40     *)
(* seconds after the epoch.                                                *)
(***************************************************************************)
\* floor((2^64 - 1) / 10^9) = 18446744073 seconds
LastExactSecond == <<64009, 19330, 4, 0>>

\* 2^40 seconds
TwoToThe40 == <<0, 0, 256, 0>>

\* The seconds of the model: 0 .. SecondsWindow, the window around
\* LastExactSecond and the window below 2^40.
ConvertSeconds ==
    {U64(n) : n \in 0..SecondsWindow}
    \cup {U64Sub(LastExactSecond, U64(n)) : n \in 0..SecondsWindow}
    \cup {U64Add(LastExactSecond, U64(n)) : n \in 1..SecondsWindow}
    \cup {U64Sub(TwoToThe40, U64(n)) : n \in 0..SecondsWindow}

\* 116444736000000000 + 10^7 * s
FiletimeOfSecond(s) ==
    U64Add(FILETIME_UNIX_EPOCH,
           U64MulSmall(U64MulSmall(s, 10000).value, 1000).value)

\* The FILETIME values of the model: the whole seconds, the tick after
\* each, zero, the tick before the epoch and the largest u64.
ConvertInputs ==
    {FiletimeOfSecond(s) : s \in ConvertSeconds}
    \cup {U64Add(FiletimeOfSecond(s), U64(1)) : s \in ConvertSeconds}
    \cup {U64Zero, U64Sub(FILETIME_UNIX_EPOCH, U64(1)),
          <<65535, 65535, 65535, 65535>>}

InitConvert ==
    /\ overflow_checks \in BOOLEAN
    /\ filetime \in ConvertInputs
    /\ converted = << >>
    /\ converter = "none"
    /\ max_path_depth = OptimizedPathDepth
    /\ path_info = EmptyMap
    /\ path_cache = EmptyMap
    /\ walk = NoWalk
    /\ TimelineIdle
    /\ ParseIdle
    /\ ScanIdle
    /\ RecordIdle
    /\ SignatureIdle
    /\ InputIdle
    /\ ImageIdle
    /\ BufferIdle
    /\ InternIdle
    /\ ArtifactIdle
    /\ FilterIdle
    /\ FormatIdle
    /\ OleIdle
    /\ ViewerIdle

\* self.convert_filetime_fast(filetime)
ConvertFiletimeFast ==
    /\ converter = "none"
    /\ converted' = ConversionOf(filetime, overflow_checks)
    /\ converter' = "convert_filetime_fast"
    /\ UNCHANGED <<overflow_checks, filetime>>
    /\ UNCHANGED <<walkVars, timelineVars, parseVars, scanVars>>
    /\ UNCHANGED recordVars
    /\ UNCHANGED signatureVars
    /\ UNCHANGED inputVars
    /\ UNCHANGED imageVars
    /\ UNCHANGED bufferVars
    /\ UNCHANGED internVars
    /\ UNCHANGED artifactVars
    /\ UNCHANGED filterVars
    /\ UNCHANGED formatVars
    /\ UNCHANGED oleVars
    /\ UNCHANGED viewerVars

\* convert_timestamps_simd(&[filetime])[0]
ConvertTimestampsSimd ==
    /\ converter = "none"
    /\ converted' = ConversionOf(filetime, overflow_checks)
    /\ converter' = "convert_timestamps_simd"
    /\ UNCHANGED <<overflow_checks, filetime>>
    /\ UNCHANGED <<walkVars, timelineVars, parseVars, scanVars>>
    /\ UNCHANGED recordVars
    /\ UNCHANGED signatureVars
    /\ UNCHANGED inputVars
    /\ UNCHANGED imageVars
    /\ UNCHANGED bufferVars
    /\ UNCHANGED internVars
    /\ UNCHANGED artifactVars
    /\ UNCHANGED filterVars
    /\ UNCHANGED formatVars
    /\ UNCHANGED oleVars
    /\ UNCHANGED viewerVars

NextConvert == ConvertFiletimeFast \/ ConvertTimestampsSimd

SpecConvert == InitConvert /\ [][NextConvert]_vars

(***************************************************************************)
(* Claims about the FILETIME conversion.                                   *)
(***************************************************************************)
\* C13 (the claim as stated): for every s from 0 to 2^40, converting
\* 116444736000000000 + 10^7 * s with either function yields the instant
\* exactly s seconds after the Unix epoch.
C13_WholeSecondsConvertExactly ==
    converter # "none" =>
        \A s \in ConvertSeconds :
            (U64LessEq(s, TwoToThe40) /\ filetime = FiletimeOfSecond(s))
                => /\ ~converted.panicked
                   /\ converted.value = Some([secs |-> s, nanos |-> 0])

(***************************************************************************)
(* One MFT record: parse_single_entry_fast with use_simd = true and with   *)
(* use_simd = false.  A record is its 1024 bytes; offsets are counted from *)
(* 0 as in the code.                                                       *)
(***************************************************************************)
\* data[offset]
ByteAt(bytes, offset) == bytes[offset + 1]

\* &data[offset..]
SliceFrom(bytes, offset) == SubSeq(bytes, offset + 1, Len(bytes))

\* u16::from_le_bytes([data[offset], data[offset + 1]])
ReadU16(bytes, offset) == ByteAt(bytes, offset) + 256 * ByteAt(bytes, offset + 1)

\* u32::from_le_bytes of the four bytes at offset, as low and high half.
ReadU32(bytes, offset) == <<ReadU16(bytes, offset), ReadU16(bytes, offset + 2)>>

\* u64::from_le_bytes of the eight bytes at offset.
ReadU64(bytes, offset) ==
    <<ReadU16(bytes, offset), ReadU16(bytes, offset + 2),
      ReadU16(bytes, offset + 4), ReadU16(bytes, offset + 6)>>

\* `as usize` of a u32 (the records of the model keep it below 2^31).
AsUsize(u32) == u32[1] + 65536 * u32[2]

(***************************************************************************)
(* The bytes of the records the model decodes.                             *)
(***************************************************************************)
Zeros(n) == [i \in 1..n |-> 0]

\* The k low bytes of a natural number below 2^31, low byte first.
RECURSIVE LeBytes(_, _)
LeBytes(n, k) ==
    IF k = 0 THEN << >> ELSE <<n % 256>> \o LeBytes(n \div 256, k - 1)

U64Bytes(u) ==
    <<u[1] % 256, u[1] \div 256, u[2] % 256, u[2] \div 256,
      u[3] % 256, u[3] \div 256, u[4] % 256, u[4] \div 256>>

\* bytes, filled with zeros up to a multiple of 8.
PadTo8(bytes) == bytes \o Zeros((8 - (Len(bytes) % 8)) % 8)

\* The 24 bytes every attribute begins with: type, length, non-resident
\* flag, name length, content length at 16 and content offset at 20.
AttributeHeader(type, length, non_resident, name_length, content_length) ==
    LeBytes(type, 4) \o LeBytes(length, 4) \o <<non_resident, name_length>>
    \o Zeros(6) \o LeBytes(content_length, 4) \o LeBytes(24, 2) \o Zeros(2)

\* A resident $STANDARD_INFORMATION attribute with the four FILETIMEs.
StandardInformationBytes(created, modified) ==
    AttributeHeader(16, 72, 0, 0, 48)
    \o U64Bytes(created) \o U64Bytes(modified)
    \o U64Bytes(modified) \o U64Bytes(modified) \o Zeros(16)

\* A $FILE_NAME attribute: parent reference (entry and sequence number 1),
\* four FILETIMEs, logical and physical size, flags, name length,
\* namespace byte and the UTF-16LE name.
FileNameBytes(non_resident, namespace, name, parent, created, logical_size) ==
    LET content == LeBytes(parent, 6) \o <<1, 0>>
                   \o U64Bytes(created) \o U64Bytes(created)
                   \o U64Bytes(created) \o U64Bytes(created)
                   \o LeBytes(logical_size, 8) \o LeBytes(4096, 8)
                   \o Zeros(8) \o <<Len(name), namespace>>
                   \o Utf16Bytes(name)
        length == Len(PadTo8(Zeros(24) \o content))
    IN  PadTo8(AttributeHeader(48, length, non_resident, 0, Len(content))
               \o content)

\* A resident $DATA attribute of content_length bytes; the stream name, if
\* any, stands between header and content in a real record and is not read.
ResidentDataBytes(name_length, content_length) ==
    AttributeHeader(128, 32, 0, name_length, content_length) \o Zeros(8)

\* A non-resident $DATA attribute: allocated size at byte 40, real size at
\* byte 48, initialized size at byte 56.
NonResidentDataBytes(name_length, allocated_size, real_size) ==
    AttributeHeader(128, 64, 1, name_length, 0) \o Zeros(16)
    \o LeBytes(allocated_size, 8) \o LeBytes(real_size, 8)
    \o LeBytes(real_size, 8)

\* bytes with the bytes at offset replaced by patch.
Patched(bytes, offset, patch) ==
    [i \in 1..Len(bytes) |->
        IF i > offset /\ i <= offset + Len(patch)
        THEN patch[i - offset] ELSE bytes[i]]

\* A FILE record: the header with the update sequence array at usa_offset,
\* the attributes from byte 56 on, the end marker, zeros up to 1024 bytes,
\* and tail at the end of both 512-byte sectors.
RecordBytes(usa_offset, usa_size, usa, attrs, tail) ==
    LET header == FileSignature \o LeBytes(usa_offset, 2)
                  \o LeBytes(usa_size, 2) \o Zeros(12) \o LeBytes(56, 2)
                  \o LeBytes(1, 2) \o LeBytes(56 + Len(attrs) + 8, 4)
                  \o LeBytes(MFT_RECORD_SIZE, 4) \o Zeros(24)
        body == header \o attrs \o <<255, 255, 255, 255>>
        full == body \o Zeros(MFT_RECORD_SIZE - Len(body))
    IN  Patched(Patched(Patched(full, 510, tail), 1022, tail),
                usa_offset, usa)

(***************************************************************************)
(* The decoding steps of parse_single_entry_fast.                          *)
(***************************************************************************)
\* parse_entry_header_fast: the header fields the decoding reads.
parse_entry_header_fast(bytes, entry_number) ==
    [usa_offset |-> ReadU16(bytes, 4),
     usa_size |-> ReadU16(bytes, 6),
     first_attribute_record_offset |-> ReadU16(bytes, 20),
     used_entry_size |-> AsUsize(ReadU32(bytes, 24)),
     record_number |-> entry_number]

\* A fixup step that writes the update sequence number back.
ApplyFixupSequenceNumber(buffer, pos, fixups, fixup_idx) ==
    Patched(buffer, pos, <<ByteAt(fixups, 0), ByteAt(fixups, 1)>>)

\* buffer[pos] = fixups[fixup_idx]; buffer[pos + 1] = fixups[fixup_idx + 1]
ApplyFixup(buffer, pos, fixups, fixup_idx) ==
    Patched(buffer, pos,
            <<ByteAt(fixups, fixup_idx), ByteAt(fixups, fixup_idx + 1)>>)

\* The loop of apply_fixups_scalar from stride on.
RECURSIVE FixupsScalarFrom(_, _, _, _)
FixupsScalarFrom(buffer, fixups, stride, number_of_fixups) ==
    LET sector_pos == stride * 512 + 510
        fixup_idx == 2 + stride * 2
    IN  IF stride >= number_of_fixups THEN buffer
        ELSE IF sector_pos + 1 >= Len(buffer) THEN buffer
        ELSE IF fixup_idx + 1 >= Len(fixups) THEN buffer
        ELSE FixupsScalarFrom(ApplyFixup(buffer, sector_pos, fixups, fixup_idx),
                              fixups, stride + 1, number_of_fixups)

\* MftParser::apply_fixups_scalar: the buffer it leaves.
apply_fixups_scalar(header, buffer) ==
    LET fixups_start == header.usa_offset
        fixups_end == fixups_start + header.usa_size * 2
    IN  IF header.usa_size <= 1 THEN buffer
        ELSE IF fixups_end > Len(buffer) THEN buffer
        ELSE FixupsScalarFrom(buffer,
                 SubSeq(buffer, fixups_start + 1, fixups_end),
                 0, header.usa_size - 1)

\* The loop of apply_fixups_simd from stride on.
RECURSIVE FixupsSimdFrom(_, _, _, _)
FixupsSimdFrom(buffer, fixups, stride, number_of_fixups) ==
    LET fixup_pos == stride * 512 + 510
        fixup_idx == 2 + stride * 2
    IN  IF stride >= number_of_fixups THEN buffer
        ELSE IF fixup_pos + 2 > Len(buffer) THEN buffer
        ELSE IF fixup_idx + 1 >= Len(fixups) THEN buffer
        ELSE FixupsSimdFrom(ApplyFixup(buffer, fixup_pos, fixups, fixup_idx),
                            fixups, stride + 1, number_of_fixups)

\* apply_fixups_simd: the buffer it leaves.
apply_fixups_simd(buffer, usa_offset, usa_size) ==
    LET fixups_end_offset == usa_offset + usa_size * 2
    IN  IF usa_size <= 1 THEN buffer
        ELSE IF fixups_end_offset > Len(buffer) THEN buffer
        ELSE FixupsSimdFrom(buffer,
                 SubSeq(buffer, usa_offset + 1, fixups_end_offset),
                 0, usa_size - 1)

\* let target_types = [0x10u32, 0x30u32, 0x80u32]
TargetTypes == {<<16, 0>>, <<48, 0>>, <<128, 0>>}

\* 0xFFFFFFFF
EndMarker == <<65535, 65535>>

\* The loop of find_attributes_scalar from offset on.
RECURSIVE FindScalarFrom(_, _)
FindScalarFrom(bytes, offset) ==
    IF offset + 8 > Len(bytes) THEN << >>
    ELSE LET attr_type == ReadU32(bytes, offset)
             attr_length == AsUsize(ReadU32(bytes, offset + 4))
         IN  IF attr_type = EndMarker THEN << >>
             ELSE IF attr_length < 16 \/ offset + attr_length > Len(bytes)
             THEN << >>
             ELSE (IF attr_type \in TargetTypes
                   THEN <<<<attr_type, offset>>>> ELSE << >>)
                  \o FindScalarFrom(bytes, offset + attr_length)

\* MftParser::find_attributes_scalar
find_attributes_scalar(bytes, header) ==
    FindScalarFrom(bytes, header.first_attribute_record_offset)

\* The loop of find_attributes_simd from offset (in attr_data) on.
RECURSIVE FindSimdFrom(_, _, _)
FindSimdFrom(attr_data, first_attr_offset, offset) ==
    IF offset + 8 > Len(attr_data) THEN << >>
    ELSE LET attr_type == ReadU32(attr_data, offset)
             attr_length == AsUsize(ReadU32(attr_data, offset + 4))
         IN  IF attr_type = EndMarker THEN << >>
             ELSE IF attr_length = 0 \/ attr_length < 16 THEN << >>
             ELSE (IF attr_type \in TargetTypes
                   THEN <<<<attr_type, first_attr_offset + offset>>>>
                   ELSE << >>)
                  \o (IF offset + attr_length >= Len(attr_data) THEN << >>
                      ELSE FindSimdFrom(attr_data, first_attr_offset,
                                        offset + attr_length))

\* find_attributes_simd
find_attributes_simd(bytes) ==
    LET first_attr_offset == ReadU16(bytes, 20)
    IN  IF Len(bytes) < 24 THEN << >>
        ELSE IF first_attr_offset >= Len(bytes) THEN << >>
        ELSE FindSimdFrom(SliceFrom(bytes, first_attr_offset),
                          first_attr_offset, 0)

\* The four FILETIMEs at offset of content, converted.
TimestampsAt(content, offset) ==
    [created |-> convert_filetime_fast(ReadU64(content, offset)),
     modified |-> convert_filetime_fast(ReadU64(content, offset + 8)),
     mft_modified |-> convert_filetime_fast(ReadU64(content, offset + 16)),
     accessed |-> convert_filetime_fast(ReadU64(content, offset + 24))]

\* One of the four conversions overflows.
TimestampsOverflow(content, offset) ==
    \E i \in 0..3 : FiletimeOverflows(ReadU64(content, offset + 8 * i))

\* parse_standard_information_fast: the Ok value.
parse_standard_information_fast(attr_data) ==
    IF Len(attr_data) < 24 \/ ByteAt(attr_data, 8) # 0 THEN NoTimestamps
    ELSE IF ReadU16(attr_data, 20) + 32 > Len(attr_data) THEN NoTimestamps
    ELSE TimestampsAt(SliceFrom(attr_data, ReadU16(attr_data, 20)), 0)

\* FileNamespace::from_u8(..).unwrap_or(FileNamespace::POSIX)
NamespaceOf(byte) ==
    CASE byte = 1 -> "Win32"
      [] byte = 2 -> "DOS"
      [] byte = 3 -> "Win32AndDos"
      [] OTHER -> "POSIX"

\* A priority that prefers the POSIX name.
priority_posix_first(namespace) ==
    CASE namespace = "POSIX" -> 0
      [] namespace = "DOS" -> 1
      [] OTHER -> 2

\* FileNamespace::priority
priority(namespace) ==
    CASE namespace \in {"Win32", "Win32AndDos"} -> 0
      [] namespace = "DOS" -> 1
      [] namespace = "POSIX" -> 2

\* parse_file_name_fast tests: the attribute is parsed (Ok).
FileNameParses(attr_data) ==
    /\ Len(attr_data) >= 24
    /\ ByteAt(attr_data, 8) = 0
    /\ ReadU16(attr_data, 20) + 66 <= Len(attr_data)

\* The bytes parse_file_name_fast interns: the UTF-16LE name, or b"".
FileNameInterned(content) ==
    LET name_length == ByteAt(content, 64)
    IN  IF name_length > 0 /\ 66 + name_length * 2 <= Len(content)
        THEN [utf16 |-> TRUE,
              bytes |-> SubSeq(content, 67, 66 + name_length * 2)]
        ELSE [utf16 |-> FALSE, bytes |-> << >>]

\* StringPool::intern_utf16 / intern: the returned string.
InternedName(pool, interned) ==
    LET hash == fast_hash(interned.bytes)
    IN  IF hash \in DOMAIN pool THEN pool[hash]
        ELSE IF interned.utf16 THEN FromUtf16(interned.bytes)
        ELSE FromUtf8Lossy(interned.bytes)

\* parse_file_name_fast on an attribute that parses: the FileNameAttribute.
parse_file_name_fast(attr_data, pool) ==
    LET content == SliceFrom(attr_data, ReadU16(attr_data, 20))
        parent == ReadU64(content, 0)
    IN  [parent_entry |-> <<parent[1], parent[2], parent[3], 0>>,
         timestamps |-> TimestampsAt(content, 8),
         logical_size |-> ReadU64(content, 40),
         physical_size |-> ReadU64(content, 48),
         namespace |-> NamespaceOf(ByteAt(content, 65)),
         name |-> InternedName(pool, FileNameInterned(content))]

\* parse_data_size_fast
parse_data_size_fast(attr_data) ==
    IF Len(attr_data) < 16 THEN U64Zero
    ELSE IF ByteAt(attr_data, 8) # 0
    THEN (IF Len(attr_data) >= 48 THEN ReadU64(attr_data, 40) ELSE U64Zero)
    ELSE (IF Len(attr_data) >= 20
          THEN <<ReadU16(attr_data, 16), ReadU16(attr_data, 18), 0, 0>>
          ELSE U64Zero)

\* Event::default() with the record number of the header.
DefaultEvent(record_number) ==
    [record_number |-> record_number, filename |-> None,
     parent_directory |-> None, location |-> None,
     timestamps |-> NoTimestamps, fn_timestamps |-> NoTimestamps,
     file_size |-> None, allocated_size |-> None]

\* The state of parse_attributes_fast before its loop: the record, the
\* best filename with its priority (u8::MAX), the string pool, and whether
\* a conversion has panicked.
AttributeLoopStart(record_number, pool) ==
    [record |-> DefaultEvent(record_number), best_filename |-> None,
     best_priority |-> 255, pool |-> pool, panicked |-> FALSE]

\* One iteration of the loop of parse_attributes_fast.
AttributeLoopStep(acc, bytes, attr, checks) ==
    LET attr_data == SliceFrom(bytes, attr[2])
        content == SliceFrom(attr_data, ReadU16(attr_data, 20))
    IN  CASE attr[1] = <<16, 0>> ->
               IF /\ checks
                  /\ Len(attr_data) >= 24
                  /\ ByteAt(attr_data, 8) = 0
                  /\ ReadU16(attr_data, 20) + 32 <= Len(attr_data)
                  /\ TimestampsOverflow(content, 0)
               THEN [acc EXCEPT !.panicked = TRUE]
               ELSE [acc EXCEPT !.record.timestamps =
                         parse_standard_information_fast(attr_data)]
          [] attr[1] = <<48, 0>> ->
               IF ~FileNameParses(attr_data) THEN acc
               ELSE IF checks /\ TimestampsOverflow(content, 8)
               THEN [acc EXCEPT !.panicked = TRUE]
               ELSE LET filename_attr == parse_file_name_fast(attr_data, acc.pool)
                        pool == (fast_hash(FileNameInterned(content).bytes)
                                     :> filename_attr.name) @@ acc.pool
                    IN  IF priority(filename_attr.namespace) < acc.best_priority
                        THEN [acc EXCEPT
                                 !.best_filename = Some(filename_attr),
                                 !.best_priority =
                                     priority(filename_attr.namespace),
                                 !.pool = pool]
                        ELSE [acc EXCEPT !.pool = pool]
          [] attr[1] = <<128, 0>> ->
               IF acc.record.file_size = None
               THEN [acc EXCEPT !.record.file_size =
                         Some(parse_data_size_fast(attr_data))]
               ELSE acc

\* The loop of parse_attributes_fast from the i-th attribute on; a panic
\* ends it.
RECURSIVE AttributeLoop(_, _, _, _, _)
AttributeLoop(acc, bytes, attrs, i, checks) ==
    IF i > Len(attrs) \/ acc.panicked THEN acc
    ELSE AttributeLoop(AttributeLoopStep(acc, bytes, attrs[i], checks),
                       bytes, attrs, i + 1, checks)

\* "Apply best filename", the end of parse_attributes_fast.
ApplyBestFilename(acc) ==
    IF acc.best_filename = None THEN acc.record
    ELSE LET filename_attr == acc.best_filename[1]
         IN  [acc.record EXCEPT
                 !.filename = Some(filename_attr.name),
                 !.parent_directory = Some(filename_attr.parent_entry),
                 !.fn_timestamps = filename_attr.timestamps,
                 !.file_size =
                     IF acc.record.file_size = None
                     THEN Some(filename_attr.logical_size)
                     ELSE acc.record.file_size,
                 !.allocated_size =
                     IF acc.record.file_size = None
                     THEN Some(filename_attr.physical_size)
                     ELSE acc.record.allocated_size]

\* convert_entry_to_record_fast: the decoded Event and the pool, or a panic.
convert_entry_to_record_fast(header, bytes, attrs, pool, checks) ==
    LET acc == AttributeLoop(AttributeLoopStart(header.record_number, pool),
                             bytes, attrs, 1, checks)
    IN  [panicked |-> acc.panicked,
         record |-> IF acc.panicked THEN None
                    ELSE Some(ApplyBestFilename(acc)),
         pool |-> acc.pool]

(***************************************************************************)
(* SpecRecord: parse_single_entry_fast on one record, by a parser with     *)
(* use_simd = true and by a parser with use_simd = false, each with a      *)
(* fresh string pool.                                                      *)
(***************************************************************************)
Paths == {"simd", "scalar"}

\* The record number handed to parse_single_entry_fast.
DecodedRecordNumber == 6

\* The largest FILETIME: its conversion overflows.
MaxFiletime == <<65535, 65535, 65535, 65535>>

\* The update sequence array of a well-formed record (sequence number 1,
\* two saved sector ends) and the sequence number at both sector ends.
PlainRecord(attrs) == RecordBytes(48, 3, <<1, 0, 0, 0, 0, 0>>, attrs, <<1, 0>>)

PlainStandardInformation ==
    StandardInformationBytes(FiletimeOfSecond(U64(1)), FiletimeOfSecond(U64(2)))

\* Namespace bytes: POSIX, Win32, DOS, Win32AndDos and an undefined one.
NamespaceBytes == {0, 1, 2, 3, 9}

\* Records with two $FILE_NAME attributes, "a" under parent 5 and "b"
\* under parent 6, in every pair of namespaces, resident or not.
TwoFileNameRecords ==
    {PlainRecord(PlainStandardInformation
         \o FileNameBytes(nr1, ns1, <<"a">>, 5, FiletimeOfSecond(U64(1)), 7)
         \o FileNameBytes(nr2, ns2, <<"b">>, 6, FiletimeOfSecond(U64(2)), 9)) :
        nr1 \in {0, 1}, ns1 \in NamespaceBytes,
        nr2 \in {0, 1}, ns2 \in NamespaceBytes}

\* $DATA attributes: unnamed and named, resident and non-resident.
DataAttributes ==
    {ResidentDataBytes(0, 5), NonResidentDataBytes(0, 4096, 10),
     ResidentDataBytes(1, 3), NonResidentDataBytes(1, 8192, 20)}

\* Records with or without a $FILE_NAME (logical size 7) and with up to two
\* $DATA attributes.
DataRecords ==
    {PlainRecord(fn \o d1 \o d2) :
        fn \in {<< >>, FileNameBytes(0, 1, <<"a">>, 5,
                                     FiletimeOfSecond(U64(1)), 7)},
        d1 \in DataAttributes \cup {<< >>},
        d2 \in DataAttributes \cup {<< >>}}

\* Records whose update sequence array has 0 to MaxUsaSize entries and
\* lies in the header, across the end of the first sector or at the end of
\* the record, with or without the sequence number at the sector ends.
FixupRecords ==
    {RecordBytes(usa_offset, usa_size,
                 SubSeq(<<1, 0, 17, 18, 19, 20, 21, 22, 23, 24>>,
                        1, 2 * usa_size),
                 PlainStandardInformation, tail) :
        usa_offset \in {48, 508, 1018, 1020},
        usa_size \in 0..MaxUsaSize,
        tail \in {<<1, 0>>, <<9, 9>>}}

\* Damaged records: a last attribute whose length field runs past the end
\* of the record, an attribute shorter than 16 bytes, FILETIMEs of
\* 0xFFFFFFFFFFFFFFFF, an attribute of another type, the signatures
\* BAAD and zero, and a used_entry_size that ends after the first
\* attribute.
DamagedRecords ==
    LET fn == FileNameBytes(0, 1, <<"a">>, 5, FiletimeOfSecond(U64(1)), 7)
        si == PlainStandardInformation
    IN  {PlainRecord(fn \o Patched(NonResidentDataBytes(0, 4096, 10), 4,
                                   LeBytes(2000, 4))),
         PlainRecord(si \o Patched(fn, 4, LeBytes(2000, 4))),
         PlainRecord(si \o Patched(fn, 4, LeBytes(8, 4))),
         PlainRecord(StandardInformationBytes(MaxFiletime, MaxFiletime) \o fn),
         PlainRecord(si \o FileNameBytes(0, 1, <<"a">>, 5, MaxFiletime, 7)),
         PlainRecord(Patched(si, 0, LeBytes(32, 4)) \o fn),
         Patched(PlainRecord(si \o fn), 0, <<66, 65, 65, 68>>),
         Patched(PlainRecord(si \o fn), 0, <<0, 0, 0, 0>>),
         Patched(PlainRecord(si \o fn), 24, LeBytes(56 + Len(si), 4))}

\* The loop of apply_fixups_simd from stride on: valid_fixup as the loop
\* leaves it, each sector end compared with the update sequence before it
\* is written.
RECURSIVE ValidFixupFrom(_, _, _, _, _)
ValidFixupFrom(buffer, fixups, stride, number_of_fixups, valid) ==
    LET fixup_pos == stride * 512 + 510
        fixup_idx == 2 + stride * 2
        mismatch == \/ ByteAt(buffer, fixup_pos) # ByteAt(fixups, 0)
                    \/ ByteAt(buffer, fixup_pos + 1) # ByteAt(fixups, 1)
    IN  IF stride >= number_of_fixups THEN valid
        ELSE IF fixup_pos + 2 > Len(buffer) THEN valid
        ELSE IF fixup_idx + 1 >= Len(fixups) THEN valid
        ELSE ValidFixupFrom(ApplyFixup(buffer, fixup_pos, fixups, fixup_idx),
                            fixups, stride + 1, number_of_fixups,
                            valid /\ ~mismatch)

\* apply_fixups_simd: the boolean it returns.
valid_fixup_simd(buffer, usa_offset, usa_size) ==
    LET fixups_end_offset == usa_offset + usa_size * 2
    IN  IF usa_size <= 1 THEN TRUE
        ELSE IF fixups_end_offset > Len(buffer) THEN FALSE
        ELSE ValidFixupFrom(buffer,
                 SubSeq(buffer, usa_offset + 1, fixups_end_offset),
                 0, usa_size - 1, TRUE)

\* MftParser::apply_fixups_scalar: the boolean inside the Ok it returns.
valid_fixup_scalar(header, buffer) ==
    IF header.usa_size <= 1 THEN TRUE
    ELSE IF header.usa_offset + header.usa_size * 2 > Len(buffer) THEN FALSE
    ELSE TRUE

RecordInputs ==
    TwoFileNameRecords \cup DataRecords \cup FixupRecords \cup DamagedRecords

InitRecord ==
    /\ record_data \in RecordInputs
    /\ overflow_checks \in BOOLEAN
    /\ entry_buffer = [p \in Paths |-> << >>]
    /\ attributes = [p \in Paths |-> << >>]
    /\ decoded = [p \in Paths |-> None]
    /\ stage = [p \in Paths |-> "start"]
    /\ valid_fixup = [p \in Paths |-> None]
    /\ filetime = U64Zero
    /\ converted = << >>
    /\ converter = "none"
    /\ max_path_depth = OptimizedPathDepth
    /\ path_info = EmptyMap
    /\ path_cache = EmptyMap
    /\ walk = NoWalk
    /\ TimelineIdle
    /\ ParseIdle
    /\ ScanIdle
    /\ SignatureIdle
    /\ InputIdle
    /\ ImageIdle
    /\ BufferIdle
    /\ InternIdle
    /\ ArtifactIdle
    /\ FilterIdle
    /\ FormatIdle
    /\ OleIdle
    /\ ViewerIdle

RecordHeader == parse_entry_header_fast(record_data, DecodedRecordNumber)

\* parse_single_entry_fast lines 546-574 of path p: the signature test,
\* the header, and the fixups applied to a copy of the buffer.
FixupStep(p, fixed, valid) ==
    /\ stage[p] = "start"
    /\ IF SubSeq(record_data, 1, 4) # FileSignature
       THEN /\ stage' = [stage EXCEPT ![p] = "skipped"]
            /\ entry_buffer' = entry_buffer
            /\ valid_fixup' = valid_fixup
       ELSE /\ stage' = [stage EXCEPT ![p] = "fixed"]
            /\ entry_buffer' = [entry_buffer EXCEPT ![p] = fixed]
            /\ valid_fixup' = [valid_fixup EXCEPT ![p] = Some(valid)]
    /\ UNCHANGED <<record_data, attributes, decoded>>
    /\ UNCHANGED <<overflow_checks, filetime, converted, converter>>
    /\ UNCHANGED <<walkVars, timelineVars, parseVars, scanVars>>
    /\ UNCHANGED signatureVars
    /\ UNCHANGED inputVars
    /\ UNCHANGED imageVars
    /\ UNCHANGED bufferVars
    /\ UNCHANGED internVars
    /\ UNCHANGED artifactVars
    /\ UNCHANGED filterVars
    /\ UNCHANGED formatVars
    /\ UNCHANGED oleVars
    /\ UNCHANGED viewerVars

FixupStepSimd ==
    FixupStep("simd",
              apply_fixups_simd(record_data, RecordHeader.usa_offset,
                                RecordHeader.usa_size),
              valid_fixup_simd(record_data, RecordHeader.usa_offset,
                               RecordHeader.usa_size))

FixupStepScalar ==
    FixupStep("scalar", apply_fixups_scalar(RecordHeader, record_data),
              valid_fixup_scalar(RecordHeader, record_data))

\* parse_attributes_fast lines 682-687 of path p: the attribute search.
FindStep(p, attrs) ==
    /\ stage[p] = "fixed"
    /\ attributes' = [attributes EXCEPT ![p] = attrs]
    /\ stage' = [stage EXCEPT ![p] = "found"]
    /\ UNCHANGED <<record_data, entry_buffer, decoded, valid_fixup>>
    /\ UNCHANGED <<overflow_checks, filetime, converted, converter>>
    /\ UNCHANGED <<walkVars, timelineVars, parseVars, scanVars>>
    /\ UNCHANGED signatureVars
    /\ UNCHANGED inputVars
    /\ UNCHANGED imageVars
    /\ UNCHANGED bufferVars
    /\ UNCHANGED internVars
    /\ UNCHANGED artifactVars
    /\ UNCHANGED filterVars
    /\ UNCHANGED formatVars
    /\ UNCHANGED oleVars
    /\ UNCHANGED viewerVars

FindStepSimd == FindStep("simd", find_attributes_simd(entry_buffer["simd"]))

FindStepScalar ==
    FindStep("scalar",
             find_attributes_scalar(entry_buffer["scalar"], RecordHeader))

\* parse_attributes_fast lines 689-738 of path p, and the return of
\* convert_entry_to_record_fast.
ConvertStep(p) ==
    /\ stage[p] = "found"
    /\ LET result == convert_entry_to_record_fast(RecordHeader,
                         entry_buffer[p], attributes[p], EmptyMap,
                         overflow_checks)
       IN  /\ decoded' = [decoded EXCEPT ![p] = result.record]
           /\ stage' = [stage EXCEPT ![p] =
                  IF result.panicked THEN "panicked" ELSE "decoded"]
    /\ UNCHANGED <<record_data, entry_buffer, attributes, valid_fixup>>
    /\ UNCHANGED <<overflow_checks, filetime, converted, converter>>
    /\ UNCHANGED <<walkVars, timelineVars, parseVars, scanVars>>
    /\ UNCHANGED signatureVars
    /\ UNCHANGED inputVars
    /\ UNCHANGED imageVars
    /\ UNCHANGED bufferVars
    /\ UNCHANGED internVars
    /\ UNCHANGED artifactVars
    /\ UNCHANGED filterVars
    /\ UNCHANGED formatVars
    /\ UNCHANGED oleVars
    /\ UNCHANGED viewerVars

NextRecord ==
    \/ FixupStepSimd
    \/ FixupStepScalar
    \/ FindStepSimd
    \/ FindStepScalar
    \/ \E p \in Paths : ConvertStep(p)

SpecRecord == InitRecord /\ [][NextRecord]_vars

(***************************************************************************)
(* Claims about the decoding of one record.                                *)
(***************************************************************************)
\* The positions, in the attribute list of path p, of the $FILE_NAME
\* attributes that parse_file_name_fast parses.
C11_FileNames(p) ==
    {i \in 1..Len(attributes[p]) :
        /\ attributes[p][i][1] = <<48, 0>>
        /\ FileNameParses(SliceFrom(entry_buffer[p], attributes[p][i][2]))}

C11_Attribute(p, i) ==
    parse_file_name_fast(SliceFrom(entry_buffer[p], attributes[p][i][2]),
                         EmptyMap)

\* Win32 = Win32AndDos = 0 < DOS = 1 < POSIX = 2
C11_PriorityValue(namespace) ==
    CASE namespace \in {"Win32", "Win32AndDos"} -> 0
      [] namespace = "DOS" -> 1
      [] namespace = "POSIX" -> 2

\* The positions of the attributes with the lowest priority value.
C11_Lowest(p) ==
    {i \in C11_FileNames(p) :
        \A j \in C11_FileNames(p) :
            C11_PriorityValue(C11_Attribute(p, i).namespace)
                <= C11_PriorityValue(C11_Attribute(p, j).namespace)}

C11_ComesFrom(p, i) ==
    /\ decoded[p][1].filename = Some(C11_Attribute(p, i).name)
    /\ decoded[p][1].parent_directory = Some(C11_Attribute(p, i).parent_entry)
    /\ decoded[p][1].fn_timestamps = C11_Attribute(p, i).timestamps

\* C11 (the claim as stated): the decoded record's filename,
\* parent_directory and fn_timestamps come from the $FILE_NAME attribute
\* with the lowest namespace priority value, wherever that attribute stands
\* in the record.
C11_LowestPriorityAnyOrder ==
    \A p \in Paths :
        stage[p] = "decoded" =>
            \A i \in C11_Lowest(p) : C11_ComesFrom(p, i)

\* C11 (amended): filename, parent_directory and fn_timestamps come from
\* the first, in record order, of the parsed $FILE_NAME attributes with the
\* lowest namespace priority value (an undefined namespace byte counting as
\* POSIX); they are independent of the order when one attribute alone has
\* the lowest value.
C11_FirstOfLowestPriority ==
    \A p \in Paths :
        (stage[p] = "decoded" /\ C11_FileNames(p) # {}) =>
            C11_ComesFrom(p, CHOOSE i \in C11_Lowest(p) :
                                 \A j \in C11_Lowest(p) : i <= j)

\* C11 witness: a record whose first $FILE_NAME is POSIX and whose second
\* is Win32 has been decoded, and the filename is the second one's.
C11_Witness ==
    /\ stage["scalar"] = "decoded"
    /\ Cardinality(C11_FileNames("scalar")) = 2
    /\ \E i, j \in C11_FileNames("scalar") :
          /\ i < j
          /\ C11_Attribute("scalar", i).namespace = "POSIX"
          /\ C11_Attribute("scalar", j).namespace = "Win32"
          /\ decoded["scalar"][1].filename = Some(C11_Attribute("scalar", j).name)
          /\ C11_Attribute("scalar", j).name # C11_Attribute("scalar", i).name

\* The positions, in the attribute list of path p, of the $DATA attributes.
C12_Data(p) ==
    {i \in 1..Len(attributes[p]) : attributes[p][i][1] = <<128, 0>>}

\* The $DATA attributes without a stream name (name length, byte 9, zero).
C12_Unnamed(p) ==
    {i \in C12_Data(p) :
        ByteAt(SliceFrom(entry_buffer[p], attributes[p][i][2]), 9) = 0}

\* The size of a stream: the 64-bit value at byte 48 of a non-resident
\* attribute, the 32-bit content length at byte 16 of a resident one.
C12_StreamSize(attr_data) ==
    IF ByteAt(attr_data, 8) # 0 THEN ReadU64(attr_data, 48)
    ELSE <<ReadU16(attr_data, 16), ReadU16(attr_data, 18), 0, 0>>

\* C12 (the claim as stated): file_size of a decoded record is the size of
\* its unnamed $DATA stream (64-bit value at byte 48 when non-resident,
\* 32-bit content length at byte 16 when resident), whatever named $DATA
\* attributes precede it; without any $DATA attribute it is the logical
\* size of the chosen $FILE_NAME, or absent.
C12_FileSizeIsUnnamedStreamSize ==
    \A p \in Paths :
        stage[p] = "decoded" =>
            /\ \A i \in C12_Unnamed(p) :
                  Cardinality(C12_Unnamed(p)) = 1 =>
                      decoded[p][1].file_size =
                          Some(C12_StreamSize(SliceFrom(entry_buffer[p],
                                                        attributes[p][i][2])))
            /\ (C12_Data(p) = {} /\ C11_FileNames(p) # {}) =>
                  \E i \in C11_FileNames(p) :
                      decoded[p][1].file_size =
                          Some(C11_Attribute(p, i).logical_size)
            /\ (C12_Data(p) = {} /\ C11_FileNames(p) = {}) =>
                  decoded[p][1].file_size = None

\* C12, first part alone: a record whose only $DATA attribute is unnamed.
C12_OnlyUnnamedStream ==
    \A p \in Paths :
        (stage[p] = "decoded" /\ Cardinality(C12_Data(p)) = 1) =>
            \A i \in C12_Unnamed(p) :
                decoded[p][1].file_size =
                    Some(C12_StreamSize(SliceFrom(entry_buffer[p],
                                                  attributes[p][i][2])))

\* C12, resident streams alone: a record whose only $DATA attribute is
\* unnamed and resident.
C12_OnlyUnnamedResidentStream ==
    \A p \in Paths :
        (stage[p] = "decoded" /\ Cardinality(C12_Data(p)) = 1) =>
            \A i \in C12_Unnamed(p) :
                ByteAt(SliceFrom(entry_buffer[p], attributes[p][i][2]), 8) = 0
                    => decoded[p][1].file_size =
                          Some(C12_StreamSize(SliceFrom(entry_buffer[p],
                                                  attributes[p][i][2])))

\* C12, the fallback alone: without a $DATA attribute file_size is the
\* logical size of the chosen $FILE_NAME, or absent.
C12_FileNameSizeWithoutData ==
    \A p \in Paths :
        (stage[p] = "decoded" /\ C12_Data(p) = {}) =>
            IF C11_FileNames(p) = {} THEN decoded[p][1].file_size = None
            ELSE \E i \in C11_FileNames(p) :
                     decoded[p][1].file_size =
                         Some(C11_Attribute(p, i).logical_size)

(***************************************************************************)
(* parse_mft_data_sequential on the buffer of the parallel parse, for the  *)
(* comparison of the two.                                                  *)
(***************************************************************************)
\* Lines 478-496: the records from the i-th on are decoded in order by one
\* thread; the result is the decoded Events and the string pool.
RECURSIVE SequentialDecode(_, _, _)
SequentialDecode(i, pool, recs) ==
    IF i > Len(ParseOrder) THEN [records |-> recs, pool |-> pool]
    ELSE LET r == ParseOrder[i]
             interned == [utf16 |-> TRUE, bytes |-> mft[r].filename_bytes]
             name == InternedName(pool, interned)
         IN  SequentialDecode(i + 1,
                 (fast_hash(interned.bytes) :> name) @@ pool,
                 (r :> DecodedEvent(r, name)) @@ recs)

\* parse_mft_data_sequential by a fresh parser: the Events it returns, by
\* record number (their order is ParseOrder).
parse_mft_data_sequential ==
    LET parsed == SequentialDecode(1, EmptyMap, EmptyMap)
        locations == build_directory_paths_sequential(parsed.records,
                                                      parsed.pool)
    IN  [r \in ParseRecords |->
            [parsed.records[r] EXCEPT !.location = locations[r]]]

\* C19 (the claim as stated): the records parse_mft_data_parallel returns,
\* in ascending offset order, are the records parse_mft_data_sequential
\* returns on the same buffer, for every schedule of the workers.
C19_ParallelParseEqualsSequential ==
    AllAt({"done"}) =>
        \A r \in ParseRecords : all_records[r] = parse_mft_data_sequential[r]

\* C19, on buffers whose file names have pairwise different hashes, in
\* UTF-16LE and in UTF-8: there the two parsers return the same records.
C19_EqualWithoutHashCollision ==
    (/\ AllAt({"done"})
     /\ \A r, s \in ParseRecords :
           LET a == mft[r].filename_bytes
               b == mft[s].filename_bytes
           IN  a # b =>
                   /\ fast_hash(a) # fast_hash(b)
                   /\ fast_hash(AsBytes(FromUtf16(a)))
                          # fast_hash(AsBytes(FromUtf16(b))))
        => \A r \in ParseRecords : all_records[r] = parse_mft_data_sequential[r]

\* The path p has passed the fixup step, the attribute search, the
\* conversion.
C18_Fixed(p) == stage[p] \in {"fixed", "found", "decoded", "panicked"}

C18_Found(p) == stage[p] \in {"found", "decoded", "panicked"}

C18_Converted(p) == stage[p] \in {"decoded", "panicked"}

\* C18 (the claim as stated): decoding a 1024-byte record with use_simd =
\* true and with use_simd = false yields the same fixed-up bytes, the same
\* list of (attribute type, offset) pairs and the same decoded Event.
C18_SimdEqualsScalar ==
    /\ (C18_Fixed("simd") /\ C18_Fixed("scalar"))
           => entry_buffer["simd"] = entry_buffer["scalar"]
    /\ (C18_Found("simd") /\ C18_Found("scalar"))
           => attributes["simd"] = attributes["scalar"]
    /\ (C18_Converted("simd") /\ C18_Converted("scalar"))
           => /\ stage["simd"] = stage["scalar"]
              /\ decoded["simd"] = decoded["scalar"]

\* C18, the fixup step alone: both paths leave the same bytes.
C18_SameFixedBytes ==
    (C18_Fixed("simd") /\ C18_Fixed("scalar"))
        => entry_buffer["simd"] = entry_buffer["scalar"]

\* C18, on records whose attributes all end inside the record: the same
\* attribute list and the same Event.
C18_SameWhenAttributesFit ==
    (/\ C18_Found("simd") /\ C18_Found("scalar")
     /\ \A i \in 1..Len(attributes["simd"]) :
           attributes["simd"][i][2]
               + AsUsize(ReadU32(entry_buffer["simd"],
                                 attributes["simd"][i][2] + 4))
                 <= Len(entry_buffer["simd"]))
        => /\ attributes["simd"] = attributes["scalar"]
           /\ (C18_Converted("simd") /\ C18_Converted("scalar"))
                  => /\ stage["simd"] = stage["scalar"]
                     /\ decoded["simd"] = decoded["scalar"]

\* The update sequence array of the record as it was before the fixup.
C20_Usa ==
    SubSeq(record_data, RecordHeader.usa_offset + 1,
           RecordHeader.usa_offset + 2 * RecordHeader.usa_size)

\* The sub-sectors k in [0, usa_size - 1) whose last two bytes lie inside
\* the buffer.
C20_SubSectors ==
    {k \in 0..(RecordHeader.usa_size - 2) :
        512 * k + 512 <= Len(record_data)}

\* C20: after the fixup step of either path, for a record with
\* usa_size >= 2 whose update sequence array lies inside the buffer, the
\* last two bytes of every sub-sector k in [0, usa_size - 1) that lies
\* inside the buffer are usa[2(k+1) .. 2(k+1)+2], usa being the array as it
\* was before the fixup, and all other bytes of the record are unchanged.
C20_FixupsReplaceSectorEnds ==
    \A p \in Paths :
        (/\ C18_Fixed(p)
         /\ RecordHeader.usa_size >= 2
         /\ RecordHeader.usa_offset + 2 * RecordHeader.usa_size
                <= Len(record_data))
            => /\ Len(entry_buffer[p]) = Len(record_data)
               /\ \A k \in C20_SubSectors :
                     /\ ByteAt(entry_buffer[p], 512 * k + 510)
                            = ByteAt(C20_Usa, 2 * (k + 1))
                     /\ ByteAt(entry_buffer[p], 512 * k + 511)
                            = ByteAt(C20_Usa, 2 * (k + 1) + 1)
               /\ \A i \in 0..(Len(record_data) - 1) :
                     (\A k \in C20_SubSectors :
                          i # 512 * k + 510 /\ i # 512 * k + 511)
                         => ByteAt(entry_buffer[p], i) = ByteAt(record_data, i)

\* C20 witness: both paths have fixed up a record whose array of three
\* entries (sequence number 01 00, then 11 12 and 13 14) lies in the header
\* and whose sectors end in 09 09: the sector ends are now 11 12 and 13 14.
C20_Witness ==
    /\ C18_Fixed("simd") /\ C18_Fixed("scalar")
    /\ RecordHeader.usa_size = 3
    /\ RecordHeader.usa_offset = 48
    /\ C20_Usa = <<1, 0, 17, 18, 19, 20>>
    /\ ByteAt(record_data, 510) = 9 /\ ByteAt(record_data, 1022) = 9
    /\ \A p \in Paths :
          /\ SubSeq(entry_buffer[p], 511, 512) = <<17, 18>>
          /\ SubSeq(entry_buffer[p], 1023, 1024) = <<19, 20>>

(***************************************************************************)
(* ContainerExtractor::validate_mft_signature (container.rs).  A buffer is *)
(* its length and the four bytes at every offset the function can read:    *)
(* 512 and the multiples of 1024, where four bytes fit.                    *)
(***************************************************************************)
\* The buffers of the model hold up to MaxSignatureChunks whole 1024-byte
\* chunks, and four bytes more.
MaxSignatureChunks == 6

SignatureLengths ==
    {0, 4, 516, 1023}
        \cup {MFT_RECORD_SIZE * c : c \in 1..MaxSignatureChunks}
        \cup {MFT_RECORD_SIZE * c + 4 : c \in 1..MaxSignatureChunks}

\* The offsets of a buffer of len bytes at which the model keeps four bytes.
ProbeOffsets(len) ==
    {offset \in {512} \cup {1024 * i : i \in 0..MaxSignatureChunks} :
        offset + 4 <= len}

SignatureInputs ==
    UNION {[len : {n}, words : [ProbeOffsets(n) -> {FileSignature, <<66, 65, 65, 68>>}]] :
              n \in SignatureLengths}

\* &data[offset..offset + 4] == b"FILE"
HasFileAt(d, offset) == d.words[offset] = FileSignature

\* The while loop of validate_mft_signature from pos on, with
\* file_signatures signatures counted so far.
RECURSIVE CountFileSignatures(_, _, _)
CountFileSignatures(d, pos, file_signatures) ==
    IF pos + 1024 > d.len THEN FALSE
    ELSE IF HasFileAt(d, pos)
    THEN (IF file_signatures + 1 >= 3 THEN TRUE
          ELSE CountFileSignatures(d, pos + 1024, file_signatures + 1))
    ELSE CountFileSignatures(d, pos + 1024, file_signatures)

\* The function without its test of the length.
validate_mft_signature_any_length(d) ==
    \/ \E offset \in {0, 512, 1024, 2048} :
          offset + 4 <= d.len /\ HasFileAt(d, offset)
    \/ CountFileSignatures(d, 0, 0)

\* ContainerExtractor::validate_mft_signature
validate_mft_signature(d) ==
    IF d.len < 1024 THEN FALSE
    ELSE IF HasFileAt(d, 0) THEN TRUE
    ELSE IF \E offset \in {0, 512, 1024, 2048} :
                offset + 4 <= d.len /\ HasFileAt(d, offset)
    THEN TRUE
    ELSE CountFileSignatures(d, 0, 0)

InitSignature ==
    /\ signature_data \in SignatureInputs
    /\ is_mft = << >>
    /\ max_path_depth = OptimizedPathDepth
    /\ path_info = EmptyMap
    /\ path_cache = EmptyMap
    /\ walk = NoWalk
    /\ TimelineIdle
    /\ ParseIdle
    /\ ScanIdle
    /\ ConvertIdle
    /\ RecordIdle
    /\ InputIdle
    /\ ImageIdle
    /\ BufferIdle
    /\ InternIdle
    /\ ArtifactIdle
    /\ FilterIdle
    /\ FormatIdle
    /\ OleIdle
    /\ ViewerIdle

\* One call of validate_mft_signature(data).
ValidateMftSignature ==
    /\ is_mft = << >>
    /\ is_mft' = <<validate_mft_signature(signature_data)>>
    /\ UNCHANGED signature_data
    /\ UNCHANGED <<walkVars, timelineVars, parseVars, scanVars>>
    /\ UNCHANGED <<convertVars, recordVars, inputVars, imageVars, bufferVars>>
    /\ UNCHANGED internVars
    /\ UNCHANGED artifactVars
    /\ UNCHANGED filterVars
    /\ UNCHANGED formatVars
    /\ UNCHANGED oleVars
    /\ UNCHANGED viewerVars

NextSignature == ValidateMftSignature

SpecSignature == InitSignature /\ [][NextSignature]_vars

\* (a) the first 4 bytes of the buffer are FILE.
C15_FirstBytesAreFile ==
    signature_data.len >= 4 /\ signature_data.words[0] = FileSignature

\* (b) FILE appears at one of the offsets 0, 512, 1024, 2048.
C15_FileAtKnownOffset ==
    \E offset \in {0, 512, 1024, 2048} :
        /\ offset \in DOMAIN signature_data.words
        /\ signature_data.words[offset] = FileSignature

\* The 1024-byte-aligned offsets of the buffer at which FILE appears.
C15_AlignedFileOffsets ==
    {offset \in DOMAIN signature_data.words :
        offset % 1024 = 0 /\ signature_data.words[offset] = FileSignature}

\* C15 (the claim as stated): validate_mft_signature(buf) is true if and
\* only if the first 4 bytes are FILE, or FILE appears at offset 0, 512,
\* 1024 or 2048, or FILE appears at three or more 1024-byte-aligned
\* offsets; for buffers of every length.
C15_TrueIffFileSignatures ==
    is_mft # << >> =>
        (is_mft[1] <=> \/ C15_FirstBytesAreFile
                       \/ C15_FileAtKnownOffset
                       \/ Cardinality(C15_AlignedFileOffsets) >= 3)

\* C15 (amended): validate_mft_signature(buf) is false for every buffer
\* shorter than 1024 bytes; for a buffer of 1024 bytes or more it is true
\* if and only if FILE appears at offset 0, 512, 1024 or 2048 (where four
\* bytes fit), or at the head of three or more whole 1024-byte chunks.
C15_TrueIffFileSignaturesInWholeChunks ==
    is_mft # << >> =>
        (is_mft[1] <=>
            /\ signature_data.len >= 1024
            /\ \/ C15_FileAtKnownOffset
               \/ Cardinality({offset \in C15_AlignedFileOffsets :
                                  offset + 1024 <= signature_data.len}) >= 3)

\* C15 witness: a buffer without FILE at 0, 512, 1024 and 2048 and with
\* FILE at the head of three whole chunks has been validated as an MFT.
C15_Witness ==
    /\ is_mft = <<TRUE>>
    /\ ~C15_FileAtKnownOffset
    /\ Cardinality({offset \in C15_AlignedFileOffsets :
                       offset + 1024 <= signature_data.len}) = 3

(***************************************************************************)
(* ContainerExtractor::locate_mft_in_raw_image (container.rs).  A raw      *)
(* image is its size, whether bytes 3..10 of its boot sector are           *)
(* "NTFS    ", the three boot sector fields the function reads, and the    *)
(* offsets at which the image holds the bytes FILE.                        *)
(***************************************************************************)
\* 10 * 1024 * 1024
TenMiB == 10485760

\* The sizes of the images of the model: shorter than a boot sector, a
\* boot sector alone, a boot sector and 2 or 4 bytes, eight sectors and 0
\* or 4 bytes, and more than 10 MiB after the first eight sectors.
ImageSizes == {100, 512, 514, 516, 4096, 4100, 2 * TenMiB}

\* MFT cluster numbers: 0, 1, 8, 2^52 + 1 and 2^64 - 1.
ClusterNumbers ==
    {U64Zero, U64(1), U64(8), <<1, 0, 0, 16>>, <<65535, 65535, 65535, 65535>>}

\* The offsets at which an image of the model can hold FILE.
FileOffsets == {512, 4096}

ImageInputs ==
    [file_size : ImageSizes,
     ntfs : BOOLEAN,
     bytes_per_sector : {0, 512, 4096},
     sectors_per_cluster : {0, 1, 8},
     mft_cluster_number : ClusterNumbers,
     file_at : SUBSET FileOffsets]

\* mft_cluster_number * (bytes_per_sector * sectors_per_cluster) on u64:
\* the product modulo 2^64 and whether the exact product is 2^64 or more.
MftOffset(img) ==
    LET by_sector == U64MulSmall(img.mft_cluster_number, img.bytes_per_sector)
        by_cluster == U64MulSmall(by_sector.value, img.sectors_per_cluster)
    IN  [value |-> by_cluster.value,
         overflow |-> /\ img.bytes_per_sector * img.sectors_per_cluster # 0
                      /\ (by_sector.overflow \/ by_cluster.overflow)]

\* std::cmp::min(10 * 1024 * 1024, file_size - mft_offset)
MftSizeToRead(img, mft_offset) ==
    LET rest == U64Sub(U64(img.file_size), mft_offset)
    IN  IF U64LessEq(U64(TenMiB), rest) THEN U64(TenMiB) ELSE rest

\* &mft_data[0..4] == b"FILE", for mft_data of four bytes or more.
ImageHasFileAt(img, mft_offset) ==
    \E offset \in img.file_at : U64(offset) = mft_offset

\* locate_mft_in_raw_image in a build with overflow checks (checks) or
\* without: Ok with the offset and the length of the bytes returned, Err
\* with the error, or a panic.
locate_mft_in_raw_image(img, checks) ==
    LET mft_offset == MftOffset(img)
        mft_size_to_read == MftSizeToRead(img, mft_offset.value)
    IN  IF img.file_size < 512 THEN [kind |-> "Err", error |-> "Io"]
        ELSE IF ~img.ntfs THEN [kind |-> "Err", error |-> "InvalidInput"]
        ELSE IF mft_offset.overflow /\ checks THEN [kind |-> "Panic"]
        ELSE IF U64LessEq(U64(img.file_size), mft_offset.value)
        THEN [kind |-> "Err", error |-> "InvalidInput"]
        ELSE IF ~U64LessEq(U64(4), mft_size_to_read) THEN [kind |-> "Panic"]
        ELSE IF ~ImageHasFileAt(img, mft_offset.value)
        THEN [kind |-> "Err", error |-> "InvalidInput"]
        ELSE [kind |-> "Ok", offset |-> mft_offset.value,
              len |-> mft_size_to_read]

InitImage ==
    /\ image \in ImageInputs
    /\ overflow_checks \in BOOLEAN
    /\ located = << >>
    /\ filetime = U64Zero
    /\ converted = << >>
    /\ converter = "none"
    /\ max_path_depth = OptimizedPathDepth
    /\ path_info = EmptyMap
    /\ path_cache = EmptyMap
    /\ walk = NoWalk
    /\ TimelineIdle
    /\ ParseIdle
    /\ ScanIdle
    /\ RecordIdle
    /\ SignatureIdle
    /\ InputIdle
    /\ BufferIdle
    /\ InternIdle
    /\ ArtifactIdle
    /\ FilterIdle
    /\ FormatIdle
    /\ OleIdle
    /\ ViewerIdle

\* One call of locate_mft_in_raw_image(file, file_size).
LocateMftInRawImage ==
    /\ located = << >>
    /\ located' = <<locate_mft_in_raw_image(image, overflow_checks)>>
    /\ UNCHANGED image
    /\ UNCHANGED <<walkVars, timelineVars, parseVars, scanVars>>
    /\ UNCHANGED <<convertVars, recordVars, signatureVars, inputVars, bufferVars>>
    /\ UNCHANGED internVars
    /\ UNCHANGED artifactVars
    /\ UNCHANGED filterVars
    /\ UNCHANGED formatVars
    /\ UNCHANGED oleVars
    /\ UNCHANGED viewerVars

NextImage == LocateMftInRawImage

SpecImage == InitImage /\ [][NextImage]_vars

\* mft_cluster * bytes_per_sector * sectors_per_cluster is below 2^64 and
\* equals offset.
C17_IsMftOffset(offset) ==
    /\ ~MftOffset(image).overflow
    /\ MftOffset(image).value = offset

\* C17 (the claim as stated): for an image whose boot sector bytes 3..10
\* are "NTFS    ", whatever its three fields, locate_mft_in_raw_image
\* returns the min(10 MiB, file_size - mft_offset) bytes at mft_offset =
\* mft_cluster * bytes_per_sector * sectors_per_cluster, which begin with
\* FILE, or an error value; for an image without the signature it returns
\* an InvalidInput error.
C17_BytesAtMftOffsetOrError ==
    located # << >> =>
        IF image.ntfs
        THEN \/ located[1].kind = "Err"
             \/ /\ located[1].kind = "Ok"
                /\ C17_IsMftOffset(located[1].offset)
                /\ located[1].len =
                       MftSizeToRead(image, located[1].offset)
                /\ ImageHasFileAt(image, located[1].offset)
        ELSE located[1] = [kind |-> "Err", error |-> "InvalidInput"]

\* C17, in a build without overflow checks and without the images that
\* end less than four bytes after the MFT offset: a value is returned.
C17_ReturnsWhenFourBytesFollow ==
    (/\ located # << >>
     /\ image.file_size >= 512
     /\ ~(overflow_checks /\ MftOffset(image).overflow)
     /\ \/ U64LessEq(U64(image.file_size), MftOffset(image).value)
        \/ U64LessEq(U64(4), MftSizeToRead(image, MftOffset(image).value)))
        => located[1].kind \in {"Ok", "Err"}

(***************************************************************************)
(* The way of an input to parse_mft_data: given directly (parse_input ->   *)
(* parse_mft_file, mft.rs) or as an entry of a ZIP archive                 *)
(* (extract_all_from_zip, container.rs).  A file name is its stem and its  *)
(* extension; the content of a file is a short sequence of bytes.  Files   *)
(* above 1 MiB (parse_mmap) and entries above 100 MiB                      *)
(* (extract_large_file_in_memory) take the same way as smaller ones.       *)
(***************************************************************************)
\* The gzip member header: ID1, ID2, CM = deflate.
GzipMagic == <<31, 139, 8>>

\* A gzip stream of the bytes: the header, then the compressed bytes
\* (here each byte moved by 128, which no byte of the model's payloads
\* survives unchanged).
Gzip(bytes) == GzipMagic \o [i \in 1..Len(bytes) |-> (bytes[i] + 128) % 256]

\* GzDecoder::read_to_end: the decompressed bytes, or an error when the
\* bytes are no gzip stream.
GzDecoder(bytes) ==
    IF Len(bytes) >= 3 /\ SubSeq(bytes, 1, 3) = GzipMagic
    THEN [ok |-> TRUE,
          bytes |-> [i \in 1..(Len(bytes) - 3) |-> (bytes[i + 3] + 128) % 256]]
    ELSE [ok |-> FALSE, bytes |-> << >>]

\* str::to_lowercase on the stems and extensions of the model.
ToLowercase(s) ==
    CASE s = "GZ" -> "gz"
      [] s = "$MFT" -> "$mft"
      [] OTHER -> s

InputStems == {"$MFT", "mft", "data"}

InputExtensions == {"gz", "GZ", "mft", "lnk"}

\* The payloads: the head of a FILE record, and zeros.
InputPayloads == {<<70, 73, 76, 69, 48, 0>>, <<0, 0, 0, 0, 0, 0>>}

Inputs ==
    [route : {"direct", "zip"},
     stem : InputStems,
     extension : InputExtensions,
     bytes : InputPayloads \cup {Gzip(p) : p \in InputPayloads}]

\* MftParser::detect_input_type on a name of the model.
detect_input_type(file) ==
    LET extension == ToLowercase(file.extension)
    IN  IF extension = "lnk" THEN "Lnk"
        ELSE "Mft"

\* ContainerExtractor::detect_artifact_type on a name of the model: None
\* is "".
detect_artifact_type(file) ==
    IF \/ ToLowercase(file.stem) = "$mft"
       \/ ToLowercase(file.extension) = "mft"
    THEN "Mft"
    ELSE IF ToLowercase(file.extension) = "lnk" THEN "Lnk"
    ELSE ""

\* filename.ends_with(".gz")
EndsWithGz(file) == file.extension = "gz"

\* extract_regular_file and extract_large_file_in_memory: the data of the
\* entry, or the error of the decoder.
extract_regular_file(file) ==
    IF EndsWithGz(file) THEN GzDecoder(file.bytes)
    ELSE [ok |-> TRUE, bytes |-> file.bytes]

InitInput ==
    /\ input \in Inputs
    /\ scanner_data = << >>
    /\ input_error = << >>
    /\ max_path_depth = OptimizedPathDepth
    /\ path_info = EmptyMap
    /\ path_cache = EmptyMap
    /\ walk = NoWalk
    /\ TimelineIdle
    /\ ParseIdle
    /\ ScanIdle
    /\ ConvertIdle
    /\ RecordIdle
    /\ SignatureIdle
    /\ ImageIdle
    /\ BufferIdle
    /\ InternIdle
    /\ ArtifactIdle
    /\ FilterIdle
    /\ FormatIdle
    /\ OleIdle
    /\ ViewerIdle

InputPending == scanner_data = << >> /\ input_error = << >>

\* parse_input on a file given directly: the type is detected, an MFT file
\* is read (or mapped, above 1 MiB) and handed to parse_mft_data.
ParseInput ==
    /\ InputPending
    /\ input.route = "direct"
    /\ IF detect_input_type(input) = "Mft"
       THEN /\ scanner_data' = <<input.bytes>>
            /\ input_error' = input_error
       ELSE /\ input_error' = <<"NotMft">>
            /\ scanner_data' = scanner_data
    /\ UNCHANGED input
    /\ UNCHANGED <<walkVars, timelineVars, parseVars, scanVars>>
    /\ UNCHANGED <<convertVars, recordVars, signatureVars, imageVars, bufferVars>>
    /\ UNCHANGED internVars
    /\ UNCHANGED artifactVars
    /\ UNCHANGED filterVars
    /\ UNCHANGED formatVars
    /\ UNCHANGED oleVars
    /\ UNCHANGED viewerVars

\* extract_all_from_zip on one entry and process_multiple_artifacts: an
\* entry detected as MFT is extracted (both extractions gunzip a name that
\* ends with ".gz") and handed to parse_mft_data.
ExtractFromZip ==
    /\ InputPending
    /\ input.route = "zip"
    /\ LET extracted == extract_regular_file(input)
       IN  IF detect_artifact_type(input) # "Mft"
           THEN /\ input_error' = <<"NotMft">>
                /\ scanner_data' = scanner_data
           ELSE IF ~extracted.ok
           THEN /\ input_error' = <<"Io">>
                /\ scanner_data' = scanner_data
           ELSE /\ scanner_data' = <<extracted.bytes>>
                /\ input_error' = input_error
    /\ UNCHANGED input
    /\ UNCHANGED <<walkVars, timelineVars, parseVars, scanVars>>
    /\ UNCHANGED <<convertVars, recordVars, signatureVars, imageVars, bufferVars>>
    /\ UNCHANGED internVars
    /\ UNCHANGED artifactVars
    /\ UNCHANGED filterVars
    /\ UNCHANGED formatVars
    /\ UNCHANGED oleVars
    /\ UNCHANGED viewerVars

NextInput == ParseInput \/ ExtractFromZip

SpecInput == InitInput /\ [][NextInput]_vars

\* The input has a .gz extension and holds a gzip stream.
C16_GzInput ==
    /\ ToLowercase(input.extension) = "gz"
    /\ GzDecoder(input.bytes).ok

\* C16 (the claim as stated): an input with a .gz extension that reaches
\* the record scanner as an MFT buffer has been gunzipped, given directly
\* or as an entry of a ZIP archive; the scanner does not see the compressed
\* bytes.
C16_GzInputIsGunzipped ==
    (scanner_data # << >> /\ C16_GzInput) =>
        /\ scanner_data[1] = GzDecoder(input.bytes).bytes
        /\ scanner_data[1] # input.bytes

\* C16, the ZIP half alone, for entries whose name ends with ".gz" in
\* lower case.
C16_ZipGzEntryIsGunzipped ==
    (/\ scanner_data # << >>
     /\ C16_GzInput
     /\ input.route = "zip"
     /\ input.extension = "gz") =>
        /\ scanner_data[1] = GzDecoder(input.bytes).bytes
        /\ scanner_data[1] # input.bytes

(***************************************************************************)
(* SpecBuffer: parse_mft_data_sequential on a buffer of 1024-byte chunks   *)
(* (the last one may be shorter), one chunk at a time, by a fresh parser   *)
(* with use_simd true or false, in a build with or without overflow        *)
(* checks.                                                                 *)
(***************************************************************************)
\* The buffers of the model hold up to MaxBufferRecords whole chunks.
MaxBufferRecords == 3

\* parse_single_entry_fast after the signature test: the header, the fixups
\* on a copy of the buffer, the attribute search and the conversion, each
\* on the value the step before it returned.
DecodeEntry(buffer, entry_number, simd, pool, checks) ==
    CHOOSE outcome \in
        {IF result.panicked
         THEN [kind |-> "Panic", record |-> None, pool |-> result.pool]
         ELSE [kind |-> "Some", record |-> result.record, pool |-> result.pool] :
            result \in
              UNION {UNION {{convert_entry_to_record_fast(header, fixed, attrs,
                                                          pool, checks) :
                               attrs \in {IF simd THEN find_attributes_simd(fixed)
                                          ELSE find_attributes_scalar(fixed, header)}} :
                        fixed \in {IF simd
                                   THEN apply_fixups_simd(buffer, header.usa_offset,
                                                          header.usa_size)
                                   ELSE apply_fixups_scalar(header, buffer)}} :
                 header \in {parse_entry_header_fast(buffer, entry_number)}}} :
        TRUE

\* parse_single_entry_fast: Ok(Some(record)), Ok(None), Err, or a panic,
\* and the string pool it leaves.
parse_single_entry_fast(buffer, entry_number, simd, pool, checks) ==
    IF Len(buffer) < 4 \/ SubSeq(buffer, 1, 4) # FileSignature
    THEN [kind |-> "None", record |-> None, pool |-> pool]
    ELSE IF Len(buffer) < 48
    THEN [kind |-> "Err", record |-> None, pool |-> pool]
    ELSE DecodeEntry(buffer, entry_number, simd, pool, checks)

\* A u64 of the model as a record number.
AsRecordNumber(u64) == u64[1] + 65536 * u64[2]

\* build_directory_paths_sequential, first pass from the i-th record on:
\* the string pool and the path-info map.
RECURSIVE PathInfoPass(_, _, _, _)
PathInfoPass(recs, i, pool, info) ==
    IF i > Len(recs) THEN [pool |-> pool, info |-> info]
    ELSE IF recs[i].filename = None
    THEN PathInfoPass(recs, i + 1, pool, info)
    ELSE LET bytes == AsBytes(recs[i].filename[1])
             entry == [filename |-> InternString(pool, bytes),
                       parent_id |->
                           IF recs[i].parent_directory = None THEN 0
                           ELSE AsRecordNumber(recs[i].parent_directory[1])]
         IN  PathInfoPass(recs, i + 1, InternPool(pool, bytes),
                          (recs[i].record_number :> entry) @@ info)

\* Second pass from the i-th record on: every record's location, the path
\* cache serving a record number resolved before.
RECURSIVE LocationPass(_, _, _, _)
LocationPass(recs, i, info, cache) ==
    IF i > Len(recs) THEN [records |-> recs, cache |-> cache]
    ELSE LET r == recs[i].record_number
             path == IF r \in DOMAIN cache THEN cache[r]
                     ELSE build_path_recursive(info, r)
         IN  LocationPass([recs EXCEPT ![i].location = Some(path)], i + 1,
                          info, (r :> path) @@ cache)

\* Well-formed records named "a" (under the root) and "b" (under record
\* 0), a record whose $STANDARD_INFORMATION times are 0xFFFFFFFFFFFFFFFF,
\* and a record whose signature is zero.
BufferRecords ==
    LET si == PlainStandardInformation
        a == FileNameBytes(0, 1, <<"a">>, RootRecord, FiletimeOfSecond(U64(1)), 7)
        b == FileNameBytes(0, 1, <<"b">>, 0, FiletimeOfSecond(U64(1)), 7)
    IN  {PlainRecord(si \o a),
         PlainRecord(si \o b),
         PlainRecord(StandardInformationBytes(MaxFiletime, MaxFiletime) \o a),
         Patched(PlainRecord(si \o a), 0, <<0, 0, 0, 0>>)}

\* Buffers of one to MaxBufferRecords whole chunks, with or without four
\* bytes more.
BufferInputs ==
    UNION {{whole \o rest : whole \in [1..n -> BufferRecords],
                            rest \in {<< >>, <<FileSignature>>}} :
              n \in 1..MaxBufferRecords}

InitBuffer ==
    /\ mft_data \in BufferInputs
    /\ use_simd \in BOOLEAN
    /\ overflow_checks \in BOOLEAN
    /\ record_num = 0
    /\ parsed_records = << >>
    /\ parse_result = << >>
    /\ string_pool = EmptyMap
    /\ mft = EmptyMap
    /\ all_records = EmptyMap
    /\ pc = EmptyMap
    /\ found = EmptyMap
    /\ pool_at_paths = EmptyMap
    /\ rows = << >>
    /\ filetime = U64Zero
    /\ converted = << >>
    /\ converter = "none"
    /\ max_path_depth = OptimizedPathDepth
    /\ path_info = EmptyMap
    /\ path_cache = EmptyMap
    /\ walk = NoWalk
    /\ TimelineIdle
    /\ ScanIdle
    /\ RecordIdle
    /\ SignatureIdle
    /\ InputIdle
    /\ ImageIdle
    /\ InternIdle
    /\ ArtifactIdle
    /\ FilterIdle
    /\ FormatIdle
    /\ OleIdle
    /\ ViewerIdle

\* The loop has a whole chunk to decode.
ChunkPending ==
    /\ parse_result = << >>
    /\ record_num < Len(mft_data)
    /\ Len(mft_data[record_num + 1]) >= MFT_RECORD_SIZE

\* One iteration of the loop of parse_mft_data_sequential: the chunk is
\* decoded; a record is pushed, nothing is pushed, or the panic of the
\* decoder unwinds through the parse.
ParseChunk ==
    /\ ChunkPending
    /\ \E result \in {parse_single_entry_fast(mft_data[record_num + 1],
                          record_num, use_simd, string_pool, overflow_checks)} :
           /\ string_pool' = result.pool
           /\ IF result.kind = "Panic"
              THEN /\ parse_result' = <<[kind |-> "Panic", records |-> << >>]>>
                   /\ UNCHANGED <<record_num, parsed_records>>
              ELSE /\ parse_result' = parse_result
                   /\ record_num' = record_num + 1
                   /\ parsed_records' =
                          IF result.kind = "Some"
                          THEN Append(parsed_records, result.record[1])
                          ELSE parsed_records
    /\ UNCHANGED <<use_simd, mft_data>>
    /\ UNCHANGED <<mft, all_records, pc, found, pool_at_paths, rows>>
    /\ UNCHANGED <<walkVars, timelineVars, scanVars, convertVars>>
    /\ UNCHANGED <<recordVars, signatureVars, inputVars, imageVars>>
    /\ UNCHANGED internVars
    /\ UNCHANGED artifactVars
    /\ UNCHANGED filterVars
    /\ UNCHANGED formatVars
    /\ UNCHANGED oleVars
    /\ UNCHANGED viewerVars

\* The loop has ended (no chunk is left, or the last one is short):
\* build_directory_paths_sequential, and Ok(parsed_records).
FinishParse ==
    /\ parse_result = << >>
    /\ ~ChunkPending
    /\ \E pass1 \in {PathInfoPass(parsed_records, 1, string_pool, path_info)} :
       \E pass2 \in {LocationPass(parsed_records, 1, pass1.info, path_cache)} :
           /\ string_pool' = pass1.pool
           /\ path_info' = pass1.info
           /\ path_cache' = pass2.cache
           /\ parsed_records' = pass2.records
           /\ parse_result' = <<[kind |-> "Ok", records |-> pass2.records]>>
    /\ UNCHANGED <<use_simd, mft_data, record_num>>
    /\ UNCHANGED <<max_path_depth, walk>>
    /\ UNCHANGED <<mft, all_records, pc, found, pool_at_paths, rows>>
    /\ UNCHANGED <<timelineVars, scanVars, convertVars>>
    /\ UNCHANGED <<recordVars, signatureVars, inputVars, imageVars>>
    /\ UNCHANGED internVars
    /\ UNCHANGED artifactVars
    /\ UNCHANGED filterVars
    /\ UNCHANGED formatVars
    /\ UNCHANGED oleVars
    /\ UNCHANGED viewerVars

NextBuffer == ParseChunk \/ FinishParse

SpecBuffer == InitBuffer /\ [][NextBuffer]_vars

\* The decoding of chunk i (from 1) of the buffer fails: an error or a panic.
C14_Fails(i) ==
    /\ Len(mft_data[i]) >= MFT_RECORD_SIZE
    /\ parse_single_entry_fast(mft_data[i], i - 1, use_simd, EmptyMap,
                               overflow_checks).kind \in {"Err", "Panic"}

\* The buffer with every failing record absent (its chunk zeroed).
C14_WithoutFailing ==
    [i \in 1..Len(mft_data) |->
        IF C14_Fails(i) THEN Zeros(MFT_RECORD_SIZE) ELSE mft_data[i]]

\* The records decoded from the chunks of d from the i-th on.
RECURSIVE C14_Decoded(_, _, _, _)
C14_Decoded(d, i, pool, recs) ==
    IF i > Len(d) \/ Len(d[i]) < MFT_RECORD_SIZE
    THEN [records |-> recs, pool |-> pool]
    ELSE LET result == parse_single_entry_fast(d[i], i - 1, use_simd, pool,
                                               overflow_checks)
         IN  C14_Decoded(d, i + 1, result.pool,
                 IF result.kind = "Some" THEN Append(recs, result.record[1])
                 ELSE recs)

\* What the parse returns on the buffer without the failing records.
C14_Expected ==
    LET decoded_records == C14_Decoded(C14_WithoutFailing, 1, EmptyMap, << >>)
        pass1 == PathInfoPass(decoded_records.records, 1,
                              decoded_records.pool, EmptyMap)
    IN  LocationPass(decoded_records.records, 1, pass1.info, EmptyMap).records

\* C14 (the claim as stated): a failure while decoding one record never
\* aborts the parse; the parse returns Ok with every other FILE record of
\* the buffer, decoded as if the failing record were absent.
C14_FailureNeverAborts ==
    parse_result # << >> =>
        /\ parse_result[1].kind = "Ok"
        /\ parse_result[1].records = C14_Expected

\* C14, in a build without overflow checks: no decoding fails, and the
\* parse returns Ok with the records of the buffer.
C14_NoFailureWithoutChecks ==
    (parse_result # << >> /\ ~overflow_checks) =>
        /\ \A i \in 1..Len(mft_data) : ~C14_Fails(i)
        /\ parse_result[1].kind = "Ok"
        /\ parse_result[1].records = C14_Expected


(***************************************************************************)
(* C21: what the fixup functions return.                                   *)
(***************************************************************************)
\* The update sequence array of the record lies inside the buffer and
\* holds at least one fixup.
C21_UsaInside ==
    /\ RecordHeader.usa_size >= 2
    /\ RecordHeader.usa_offset + 2 * RecordHeader.usa_size <= Len(record_data)

\* The sub-sectors the fixup loop processes.
C21_Processed == IF C21_UsaInside THEN C20_SubSectors ELSE {}

\* Every processed sub-sector ended in usa[0..2] before the fixup.
C21_SectorEndsMatch ==
    \A k \in C21_Processed :
        /\ ByteAt(record_data, 512 * k + 510) = ByteAt(C20_Usa, 0)
        /\ ByteAt(record_data, 512 * k + 511) = ByteAt(C20_Usa, 1)

\* C21 as stated: on either path, for a record whose array lies inside
\* the buffer, the fixup function returns true exactly when every
\* processed sub-sector ended in usa[0..2] before the write, and false
\* when one of them differed.
C21_ValidIffSectorEndsMatch ==
    \A p \in Paths :
        (C18_Fixed(p) /\ C21_UsaInside) =>
            valid_fixup[p] = Some(C21_SectorEndsMatch)

\* What the code does: apply_fixups_simd returns false exactly when the
\* array runs past the buffer or a processed sub-sector did not end in
\* usa[0..2]; apply_fixups_scalar compares nothing and returns false only
\* when the array runs past the buffer.
C21_ValidAsReturned ==
    LET overflows == /\ RecordHeader.usa_size >= 2
                     /\ RecordHeader.usa_offset + 2 * RecordHeader.usa_size
                            > Len(record_data)
    IN  /\ C18_Fixed("simd") =>
              valid_fixup["simd"] = Some(~overflows /\ C21_SectorEndsMatch)
        /\ C18_Fixed("scalar") => valid_fixup["scalar"] = Some(~overflows)


(***************************************************************************)
(* C22: a record whose update sequence array runs past the buffer.         *)
(***************************************************************************)
\* usa_offset + 2 * usa_size > buffer length, for an array with a fixup.
C22_UsaOverflows ==
    /\ RecordHeader.usa_size >= 2
    /\ RecordHeader.usa_offset + 2 * RecordHeader.usa_size > Len(record_data)

\* C22 as stated: a record whose update sequence array would overflow the
\* buffer is dropped; its decoding produces no Event on either path.
C22_OverflowingUsaIsDropped ==
    \A p \in Paths :
        (C18_Converted(p) /\ C22_UsaOverflows) => decoded[p] = None

\* What the code does: the fixup function returns false, the buffer is
\* left as it was, and the record is decoded from it.
C22_OverflowingUsaIsDecoded ==
    \A p \in Paths :
        (C18_Fixed(p) /\ C22_UsaOverflows) =>
            /\ valid_fixup[p] = Some(FALSE)
            /\ entry_buffer[p] = record_data
            /\ stage[p] = "decoded" => decoded[p] # None


(***************************************************************************)
(* C23: where the attribute walk stops.                                    *)
(***************************************************************************)
\* The length field of the attribute at offset of the fixed-up buffer.
C23_Length(p, offset) == AsUsize(ReadU32(entry_buffer[p], offset + 4))

\* The walk of the claim from offset on: it stops at the end marker, at a
\* length below 16, at a length that runs past the buffer, and at an
\* offset at or beyond used_entry_size.
RECURSIVE C23_StatedWalk(_, _, _)
C23_StatedWalk(bytes, used_entry_size, offset) ==
    IF offset + 8 > Len(bytes) \/ offset >= used_entry_size THEN << >>
    ELSE LET attr_type == ReadU32(bytes, offset)
             attr_length == AsUsize(ReadU32(bytes, offset + 4))
         IN  IF attr_type = EndMarker THEN << >>
             ELSE IF attr_length < 16 \/ offset + attr_length > Len(bytes)
             THEN << >>
             ELSE (IF attr_type \in TargetTypes
                   THEN <<<<attr_type, offset>>>> ELSE << >>)
                  \o C23_StatedWalk(bytes, used_entry_size,
                                    offset + attr_length)

\* The offsets of the yielded attributes strictly increase.
C23_Increasing(p) ==
    \A i, j \in 1..Len(attributes[p]) :
        i < j => attributes[p][i][2] < attributes[p][j][2]

\* C23 as stated: on either path the walk yields, in strictly increasing
\* offset order, the attributes before the first position where the type
\* is 0xFFFFFFFF, the length is below 16, offset + length exceeds the
\* buffer, or the offset is at or beyond used_entry_size; no yielded
\* attribute extends past the buffer or starts at or past used_entry_size.
C23_WalkStopsAtFirstBadPosition ==
    \A p \in Paths :
        C18_Found(p) =>
            /\ attributes[p] =
                   C23_StatedWalk(entry_buffer[p], RecordHeader.used_entry_size,
                                  RecordHeader.first_attribute_record_offset)
            /\ C23_Increasing(p)
            /\ \A i \in 1..Len(attributes[p]) :
                  /\ attributes[p][i][2] + C23_Length(p, attributes[p][i][2])
                         <= Len(entry_buffer[p])
                  /\ attributes[p][i][2] < RecordHeader.used_entry_size

\* What the code does: both walks yield in strictly increasing offset
\* order and stop at the end marker and at a length below 16; the scalar
\* walk also stops at a length that runs past the buffer, so what it
\* yields lies inside the buffer; neither walk reads used_entry_size.
C23_WalkAsCoded ==
    /\ \A p \in Paths :
          C18_Found(p) =>
              /\ C23_Increasing(p)
              /\ \A i \in 1..Len(attributes[p]) :
                    /\ C23_Length(p, attributes[p][i][2]) >= 16
                    /\ ReadU32(entry_buffer[p], attributes[p][i][2])
                           \in TargetTypes
    /\ C18_Found("scalar") =>
          /\ attributes["scalar"] =
                 C23_StatedWalk(entry_buffer["scalar"],
                                Len(entry_buffer["scalar"]),
                                RecordHeader.first_attribute_record_offset)
          /\ \A i \in 1..Len(attributes["scalar"]) :
                attributes["scalar"][i][2]
                    + C23_Length("scalar", attributes["scalar"][i][2])
                    <= Len(entry_buffer["scalar"])


(***************************************************************************)
(* SpecIntern: threads calling StringPool::intern and intern_utf16 on one  *)
(* pool.  A handle is an Arc<str>: its allocation and its text, the text a *)
(* sequence of code points.  Each call is two steps on the map, the get    *)
(* and the insert; DashMap makes each of them atomic.                      *)
(***************************************************************************)
\* The calls the model begins.
MaxInternCalls == 3

Threads == {1, 2}

\* U+FFFD REPLACEMENT CHARACTER
ReplacementCharacter == 65533

\* "[Invalid UTF-16]"
InvalidUtf16 ==
    <<91, 73, 110, 118, 97, 108, 105, 100, 32, 85, 84, 70, 45, 49, 54, 93>>

\* String::from_utf8_lossy from byte i on: every maximal ill-formed part
\* becomes one U+FFFD.
RECURSIVE Utf8LossyFrom(_, _)
Utf8LossyFrom(bytes, i) ==
    IF i > Len(bytes) THEN << >>
    ELSE LET b == bytes[i]
             In(j, lo, hi) == j <= Len(bytes) /\ bytes[j] >= lo /\ bytes[j] <= hi
             Cont(j) == In(j, 128, 191)
             Bad(n) == <<ReplacementCharacter>> \o Utf8LossyFrom(bytes, i + n)
         IN  IF b < 128 THEN <<b>> \o Utf8LossyFrom(bytes, i + 1)
             ELSE IF b >= 194 /\ b <= 223
             THEN IF Cont(i + 1)
                  THEN <<(b - 192) * 64 + (bytes[i + 1] - 128)>>
                       \o Utf8LossyFrom(bytes, i + 2)
                  ELSE Bad(1)
             ELSE IF b >= 224 /\ b <= 239
             THEN IF In(i + 1, IF b = 224 THEN 160 ELSE 128,
                               IF b = 237 THEN 159 ELSE 191)
                  THEN IF Cont(i + 2)
                       THEN <<(b - 224) * 4096 + (bytes[i + 1] - 128) * 64
                               + (bytes[i + 2] - 128)>>
                            \o Utf8LossyFrom(bytes, i + 3)
                       ELSE Bad(2)
                  ELSE Bad(1)
             ELSE IF b >= 240 /\ b <= 244
             THEN IF In(i + 1, IF b = 240 THEN 144 ELSE 128,
                               IF b = 244 THEN 143 ELSE 191)
                  THEN IF Cont(i + 2)
                       THEN IF Cont(i + 3)
                            THEN <<(b - 240) * 262144
                                    + (bytes[i + 1] - 128) * 4096
                                    + (bytes[i + 2] - 128) * 64
                                    + (bytes[i + 3] - 128)>>
                                 \o Utf8LossyFrom(bytes, i + 4)
                            ELSE Bad(3)
                       ELSE Bad(2)
                  ELSE Bad(1)
             ELSE Bad(1)

\* String::from_utf8_lossy(data)
from_utf8_lossy(bytes) == Utf8LossyFrom(bytes, 1)

\* String::from_utf16 from code unit i on: the code points, or an error at
\* an unpaired surrogate.
RECURSIVE Utf16From(_, _)
Utf16From(units, i) ==
    IF i > Len(units) THEN [ok |-> TRUE, text |-> << >>]
    ELSE LET u == units[i]
         IN  IF u < 55296 \/ u > 57343
             THEN LET rest == Utf16From(units, i + 1)
                  IN  [ok |-> rest.ok, text |-> <<u>> \o rest.text]
             ELSE IF /\ u <= 56319
                     /\ i + 1 <= Len(units)
                     /\ units[i + 1] >= 56320
                     /\ units[i + 1] <= 57343
             THEN LET rest == Utf16From(units, i + 2)
                  IN  [ok |-> rest.ok,
                       text |-> <<65536 + (u - 55296) * 1024
                                       + (units[i + 1] - 56320)>>
                                \o rest.text]
             ELSE [ok |-> FALSE, text |-> << >>]

\* StringPool::convert_utf16_simd: an empty string for an odd length, else
\* String::from_utf16 of the little-endian code units.
convert_utf16_simd(utf16_data) ==
    IF Len(utf16_data) % 2 # 0 THEN [ok |-> TRUE, text |-> << >>]
    ELSE Utf16From([i \in 1..(Len(utf16_data) \div 2) |->
                        utf16_data[2 * i - 1] + 256 * utf16_data[2 * i]], 1)

\* The string a call builds after its lookup missed.
NewString(entry, bytes) ==
    IF entry = "intern" THEN from_utf8_lossy(bytes)
    ELSE IF convert_utf16_simd(bytes).ok THEN convert_utf16_simd(bytes).text
    ELSE InvalidUtf16

\* The calls of the model: intern of "AA", of the UTF-8 bytes of U+4141, of
\* "test.txt" and of an ill-formed byte; intern_utf16 of U+4141 (the bytes
\* 41 41), of "AA", of an odd number of bytes and of a lone surrogate.
InternCalls ==
    [entry : {"intern"},
     data : {<<65, 65>>, <<228, 133, 129>>,
             <<116, 101, 115, 116, 46, 116, 120, 116>>, <<255>>}]
    \cup
    [entry : {"intern_utf16"},
     data : {<<65, 65>>, <<65, 0, 65, 0>>, <<65>>, <<0, 216>>}]

NotInCall == [pc |-> "idle"]

InitIntern ==
    /\ arc_pool = EmptyMap
    /\ intern_pc = [t \in Threads |-> NotInCall]
    /\ returned = << >>
    /\ allocated = 0
    /\ max_path_depth = OptimizedPathDepth
    /\ path_info = EmptyMap
    /\ path_cache = EmptyMap
    /\ walk = NoWalk
    /\ TimelineIdle
    /\ ParseIdle
    /\ ScanIdle
    /\ ConvertIdle
    /\ RecordIdle
    /\ SignatureIdle
    /\ InputIdle
    /\ ImageIdle
    /\ BufferIdle
    /\ ArtifactIdle
    /\ FilterIdle
    /\ FormatIdle
    /\ OleIdle
    /\ ViewerIdle

InternUnchanged ==
    /\ UNCHANGED <<walkVars, timelineVars, parseVars, scanVars>>
    /\ UNCHANGED <<convertVars, recordVars, signatureVars, inputVars>>
    /\ UNCHANGED <<imageVars, bufferVars>>
    /\ UNCHANGED artifactVars
    /\ UNCHANGED filterVars
    /\ UNCHANGED formatVars
    /\ UNCHANGED oleVars
    /\ UNCHANGED viewerVars

\* intern / intern_utf16 up to the lookup: the hash of the bytes handed in,
\* `self.pool.read().get(&hash)`, and the return of a clone of the handle
\* found.
InternLookup(t, call) ==
    /\ intern_pc[t].pc = "idle"
    /\ Len(returned) + Cardinality({u \in Threads : intern_pc[u].pc = "missed"})
           < MaxInternCalls
    /\ \E hash \in {fast_hash(call.data)} :
          IF hash \in DOMAIN arc_pool
          THEN /\ returned' = Append(returned,
                      [thread |-> t, entry |-> call.entry, data |-> call.data,
                       handle |-> arc_pool[hash]])
               /\ UNCHANGED <<arc_pool, intern_pc, allocated>>
          ELSE /\ intern_pc' = [intern_pc EXCEPT ![t] =
                      [pc |-> "missed", entry |-> call.entry,
                       data |-> call.data, hash |-> hash]]
               /\ UNCHANGED <<arc_pool, returned, allocated>>
    /\ InternUnchanged
    /\ UNCHANGED artifactVars
    /\ UNCHANGED filterVars
    /\ UNCHANGED formatVars
    /\ UNCHANGED oleVars
    /\ UNCHANGED viewerVars

\* The rest of a call whose lookup missed: the new Arc<str>,
\* `self.pool.read().insert(hash, string.clone())`, which replaces what is
\* stored under the hash, and the return of the new handle.
InternInsert(t) ==
    /\ intern_pc[t].pc = "missed"
    /\ \E string \in {[ptr |-> allocated + 1,
                       text |-> NewString(intern_pc[t].entry, intern_pc[t].data)]} :
          /\ arc_pool' = (intern_pc[t].hash :> string) @@ arc_pool
          /\ returned' = Append(returned,
                 [thread |-> t, entry |-> intern_pc[t].entry,
                  data |-> intern_pc[t].data, handle |-> string])
    /\ allocated' = allocated + 1
    /\ intern_pc' = [intern_pc EXCEPT ![t] = NotInCall]
    /\ InternUnchanged

NextIntern ==
    \/ \E t \in Threads, call \in InternCalls : InternLookup(t, call)
    \/ \E t \in Threads : InternInsert(t)

SpecIntern == InitIntern /\ [][NextIntern]_vars

\* C24 as stated: for every interleaving of intern calls on one pool, all
\* calls made with equal byte sequences have returned the same handle (the
\* same allocation), and every returned handle is the one stored in the
\* pool for its content.
C24_EqualBytesSameHandle ==
    \A i, j \in 1..Len(returned) :
        (/\ returned[i].entry = "intern"
         /\ returned[j].entry = "intern"
         /\ returned[i].data = returned[j].data) =>
            /\ returned[i].handle.ptr = returned[j].handle.ptr
            /\ arc_pool[fast_hash(returned[i].data)] = returned[i].handle

\* C25 as stated: whatever calls came before, intern(b) has returned the
\* UTF-8 decoding of b and intern_utf16(b) the UTF-16LE decoding of b.
C25_HandleTextIsDecoding ==
    \A i \in 1..Len(returned) :
        returned[i].handle.text = NewString(returned[i].entry, returned[i].data)


\* What the code gives: as long as no insert has replaced a stored handle
\* (every allocation is still in the map), calls whose bytes have the same
\* hash have returned the same handle.
C24_SameHandleWithoutReplacement ==
    allocated = Cardinality(DOMAIN arc_pool) =>
        \A i, j \in 1..Len(returned) :
            fast_hash(returned[i].data) = fast_hash(returned[j].data) =>
                returned[i].handle = returned[j].handle


(***************************************************************************)
(* SpecArtifacts: App::process_multiple_artifacts handing two MFT          *)
(* artifacts of a container, one after the other, to the one MftParser of  *)
(* the App.                                                                *)
(***************************************************************************)
\* The second artifact: a buffer of one record.
SecondArtifacts == {<<chunk>> : chunk \in BufferRecords}

\* The loop of process_multiple_artifacts after the first artifact:
\* self.parser.parse_mft_data(&artifact.data) is entered for the next one.
\* The parser is the same object; nothing of it is cleared.
ParseNextArtifact ==
    /\ artifact_index = 0
    /\ parse_result # << >>
    /\ parse_result[1].kind = "Ok"
    /\ artifact_index' = 1
    /\ mft_data' \in SecondArtifacts
    /\ record_num' = 0
    /\ parsed_records' = << >>
    /\ parse_result' = << >>
    /\ UNCHANGED <<use_simd, string_pool, max_path_depth, path_info, path_cache>>
    /\ UNCHANGED <<walk, mft, all_records, pc, found, pool_at_paths, rows>>
    /\ UNCHANGED <<timelineVars, scanVars, convertVars, recordVars>>
    /\ UNCHANGED <<signatureVars, inputVars, imageVars, internVars>>
    /\ UNCHANGED filterVars
    /\ UNCHANGED formatVars
    /\ UNCHANGED oleVars
    /\ UNCHANGED viewerVars

NextArtifacts == ParseChunk \/ FinishParse \/ ParseNextArtifact

SpecArtifacts == InitBuffer /\ [][NextArtifacts]_vars

\* What a freshly constructed parser returns for the buffer.
C26_FreshParse ==
    LET decoded_records == C14_Decoded(mft_data, 1, EmptyMap, << >>)
        pass1 == PathInfoPass(decoded_records.records, 1,
                              decoded_records.pool, EmptyMap)
    IN  LocationPass(decoded_records.records, 1, pass1.info, EmptyMap).records

\* C26 as stated: the records the parser returns for the second artifact
\* (locations and filenames included) are those a freshly constructed
\* parser returns for it.
C26_SecondParseAsFresh ==
    (/\ artifact_index = 1
     /\ parse_result # << >>
     /\ parse_result[1].kind = "Ok") =>
        parse_result[1].records = C26_FreshParse

\* What the code gives: the first artifact is parsed as by a fresh parser,
\* and the second one differs from a fresh parse in nothing but the
\* locations.
C26_SecondParseDiffersInLocation ==
    (parse_result # << >> /\ parse_result[1].kind = "Ok") =>
        /\ artifact_index = 0 => parse_result[1].records = C26_FreshParse
        /\ Len(parse_result[1].records) = Len(C26_FreshParse)
        /\ \A i \in 1..Len(C26_FreshParse) :
              [parse_result[1].records[i] EXCEPT !.location = None]
                  = [C26_FreshParse[i] EXCEPT !.location = None]


(***************************************************************************)
(* SpecFilter: App::run with --after and/or --before: apply_filters on the *)
(* parsed records, then write_timeline on the records kept.                *)
(***************************************************************************)
\* The values of --after and --before: absent, or a date from before the
\* first timestamp of the model to after the last.
DateFilters == {None} \cup {Some(t) : t \in 0..(MaxTimestamp + 1)}

\* The records handed to apply_filters: one record with any created and
\* modified time and possibly a $FILE_NAME created time, alone or followed
\* by a second record.
FilterRecords ==
    [record_number : {6}, filename : {Some(<<"a">>)},
     location : {Some(<<"a">>)},
     timestamps : [created : TimestampChoices, modified : TimestampChoices,
                   mft_modified : {None}, accessed : {None}],
     fn_timestamps : [created : {None, Some(1)}, modified : {None},
                      mft_modified : {None}, accessed : {None}]]

\* A timestamp that is strictly before after_dt is out, one that is
\* strictly after before_dt is out; an absent timestamp is in only when no
\* filter is set.
timestamp_in_range_exclusive(timestamp, after, before) ==
    IF timestamp # None
    THEN /\ ~(after # None /\ timestamp[1] <= after[1])
         /\ ~(before # None /\ timestamp[1] >= before[1])
    ELSE after = None /\ before = None

\* datetime::timestamp_in_range
timestamp_in_range(timestamp, after, before) ==
    IF timestamp # None
    THEN /\ ~(after # None /\ timestamp[1] < after[1])
         /\ ~(before # None /\ timestamp[1] > before[1])
    ELSE after = None /\ before = None

\* datetime::record_in_date_range
record_in_date_range(record, after, before) ==
    \/ timestamp_in_range(record.timestamps.created, after, before)
    \/ timestamp_in_range(record.timestamps.modified, after, before)
    \/ timestamp_in_range(record.timestamps.mft_modified, after, before)
    \/ timestamp_in_range(record.timestamps.accessed, after, before)
    \/ timestamp_in_range(record.fn_timestamps.created, after, before)
    \/ timestamp_in_range(record.fn_timestamps.modified, after, before)
    \/ timestamp_in_range(record.fn_timestamps.mft_modified, after, before)
    \/ timestamp_in_range(record.fn_timestamps.accessed, after, before)

\* App::record_passes_filters with no --filter regex.
record_passes_filters(record, after, before) ==
    ~((after # None \/ before # None)
      /\ ~record_in_date_range(record, after, before))

InitFilter ==
    /\ after_date \in DateFilters
    /\ before_date \in DateFilters
    /\ unfiltered \in {<<first>> : first \in FilterRecords}
                      \cup (FilterRecords \X SecondRecords)
    /\ filter_stage = "parsed"
    /\ tie_policy = "stable"
    /\ records = << >>
    /\ events = << >>
    /\ sorted_events = << >>
    /\ sorted_by = "none"
    /\ max_path_depth = OptimizedPathDepth
    /\ path_info = EmptyMap
    /\ path_cache = EmptyMap
    /\ walk = NoWalk
    /\ ParseIdle
    /\ ScanIdle
    /\ ConvertIdle
    /\ RecordIdle
    /\ SignatureIdle
    /\ InputIdle
    /\ ImageIdle
    /\ BufferIdle
    /\ InternIdle
    /\ ArtifactIdle
    /\ FormatIdle
    /\ OleIdle
    /\ ViewerIdle

\* App::apply_filters: the records that pass, in their order.
apply_filters ==
    /\ filter_stage = "parsed"
    /\ records' = SelectSeq(unfiltered,
                      LAMBDA record :
                          record_passes_filters(record, after_date, before_date))
    /\ filter_stage' = "filtered"
    /\ UNCHANGED <<after_date, before_date, unfiltered>>
    /\ UNCHANGED <<tie_policy, events, sorted_events, sorted_by>>
    /\ UNCHANGED <<walkVars, parseVars, scanVars, convertVars, recordVars>>
    /\ UNCHANGED <<signatureVars, inputVars, imageVars, bufferVars>>
    /\ UNCHANGED <<internVars, artifactVars>>
    /\ UNCHANGED formatVars
    /\ UNCHANGED oleVars
    /\ UNCHANGED viewerVars

\* App::write_file_output: write_timeline on the filtered records.
write_file_output ==
    /\ filter_stage = "filtered"
    /\ write_timeline

NextFilter == apply_filters \/ write_file_output

SpecFilter == InitFilter /\ [][NextFilter]_vars

\* after <= t <= before, for the bounds that are given.
C27_InRange(t) ==
    /\ after_date # None => after_date[1] <= t
    /\ before_date # None => t <= before_date[1]

\* A date filter is given and the timeline has been written.
C27_FilteredTimelineWritten ==
    /\ sorted_by = "write_timeline"
    /\ after_date # None \/ before_date # None

C27_HasTimestampInRange(record) ==
    \E t \in {record.timestamps.created, record.timestamps.modified,
              record.timestamps.mft_modified, record.timestamps.accessed,
              record.fn_timestamps.created, record.fn_timestamps.modified,
              record.fn_timestamps.mft_modified,
              record.fn_timestamps.accessed} :
        t # None /\ C27_InRange(t[1])

MaxFormatEvents == 3

FormatChunkSize == 2

\* Two instants of the same second, and two of another.
FormatTimestamps ==
    {[secs |-> 0, nanos |-> 0],
     [secs |-> 0, nanos |-> 500000000],
     [secs |-> 1700000000, nanos |-> 0],
     [secs |-> 1700000000, nanos |-> 123456789]}

\* Tz::UTC and Tz::Asia__Tokyo ("UTC+9"), which has had no other offset
\* since the epoch.
Timezones == {"UTC", "Asia/Tokyo"}

UtcOffsetHours(tz) == IF tz = "Asia/Tokyo" THEN 9 ELSE 0

\* `{:0width$}` of a number.
RECURSIVE ZeroPadded(_, _)
ZeroPadded(n, width) ==
    IF width = 0 THEN << >>
    ELSE ZeroPadded(n \div 10, width - 1) \o <<Digits[(n % 10) + 1]>>

\* The civil date of a day number (days since 1970-01-01).
CivilFromDays(days) ==
    LET z == days + 719468
        era == z \div 146097
        doe == z - era * 146097
        yoe == (doe - doe \div 1460 + doe \div 36524 - doe \div 146096) \div 365
        doy == doe - (365 * yoe + yoe \div 4 - yoe \div 100)
        mp == (5 * doy + 2) \div 153
        month == IF mp < 10 THEN mp + 3 ELSE mp - 9
    IN  [year |-> yoe + era * 400 + (IF month <= 2 THEN 1 ELSE 0),
         month |-> month,
         day |-> doy - (153 * mp + 2) \div 5 + 1]

\* datetime::format_weekday of a day number; 1970-01-01 was a Thursday.
format_weekday(days) ==
    <<<<"T", "h", "u">>, <<"F", "r", "i">>, <<"S", "a", "t">>,
      <<"S", "u", "n">>, <<"M", "o", "n">>, <<"T", "u", "e">>,
      <<"W", "e", "d">>>>[(days % 7) + 1]

\* datetime::format_utc_offset for an offset of whole hours from 0 to 9.
format_utc_offset(offset_hours) ==
    IF offset_hours = 0 THEN <<"U", "T", "C", " ", " ", " ">>
    ELSE <<"U", "T", "C", "+">> \o DecimalString(offset_hours) \o <<" ">>

\* datetime::convert_to_timezone: the same instant with the local clock of
\* the zone.
convert_to_timezone(utc_dt, tz) ==
    [local_secs |-> utc_dt.secs + 3600 * UtcOffsetHours(tz),
     nanos |-> utc_dt.nanos,
     offset_hours |-> UtcOffsetHours(tz)]

\* datetime::format_timestamp_human:
\* "{weekday} {%Y-%m-%d %H:%M:%S}.{nanos:09} {utc_offset}".
format_timestamp_human(dt) ==
    LET days == dt.local_secs \div 86400
        second_of_day == dt.local_secs % 86400
        date == CivilFromDays(days)
    IN  format_weekday(days) \o <<" ">>
        \o ZeroPadded(date.year, 4) \o <<"-">> \o ZeroPadded(date.month, 2)
        \o <<"-">> \o ZeroPadded(date.day, 2) \o <<" ">>
        \o ZeroPadded(second_of_day \div 3600, 2) \o <<":">>
        \o ZeroPadded((second_of_day % 3600) \div 60, 2) \o <<":">>
        \o ZeroPadded(second_of_day % 60, 2) \o <<".">>
        \o ZeroPadded(dt.nanos, 9) \o <<" ">>
        \o format_utc_offset(dt.offset_hours)

\* The chunks of par_chunks(chunk_size) and the events of chunk c.
FormatChunks == 1..((MaxFormatEvents + FormatChunkSize - 1) \div FormatChunkSize)

ChunkEnd(c) ==
    IF c * FormatChunkSize < Len(format_input) THEN c * FormatChunkSize
    ELSE Len(format_input)

InitFormat ==
    /\ timezone \in Timezones
    /\ format_input \in UNION {[1..n -> FormatTimestamps] : n \in 1..MaxFormatEvents}
    /\ timestamp_cache = EmptyMap
    /\ formatted_rows = [i \in 1..Len(format_input) |-> None]
    /\ format_pc = [c \in FormatChunks |->
                       [index |-> (c - 1) * FormatChunkSize + 1, missed |-> FALSE]]
    /\ max_path_depth = OptimizedPathDepth
    /\ path_info = EmptyMap
    /\ path_cache = EmptyMap
    /\ walk = NoWalk
    /\ TimelineIdle
    /\ ParseIdle
    /\ ScanIdle
    /\ ConvertIdle
    /\ RecordIdle
    /\ SignatureIdle
    /\ InputIdle
    /\ ImageIdle
    /\ BufferIdle
    /\ InternIdle
    /\ ArtifactIdle
    /\ FilterIdle
    /\ OleIdle
    /\ ViewerIdle

FormatUnchanged ==
    /\ UNCHANGED <<walkVars, timelineVars, parseVars, scanVars>>
    /\ UNCHANGED <<convertVars, recordVars, signatureVars, inputVars>>
    /\ UNCHANGED <<imageVars, bufferVars, internVars, artifactVars, filterVars>>
    /\ UNCHANGED oleVars
    /\ UNCHANGED viewerVars

\* format_single up to the lookup, for the next event of chunk c:
\* `unix_time = timestamp.timestamp()`, `self.cache.get(&unix_time)`, and
\* the return of the cached text.
FormatLookup(c) ==
    /\ format_pc[c].index <= ChunkEnd(c)
    /\ ~format_pc[c].missed
    /\ LET i == format_pc[c].index
           unix_time == format_input[i].secs
       IN  IF unix_time \in DOMAIN timestamp_cache
           THEN /\ formatted_rows' =
                       [formatted_rows EXCEPT ![i] = Some(timestamp_cache[unix_time])]
                /\ format_pc' = [format_pc EXCEPT ![c].index = i + 1]
           ELSE /\ format_pc' = [format_pc EXCEPT ![c].missed = TRUE]
                /\ formatted_rows' = formatted_rows
    /\ UNCHANGED <<timezone, format_input, timestamp_cache>>
    /\ FormatUnchanged
    /\ UNCHANGED oleVars
    /\ UNCHANGED viewerVars

\* The rest of format_single after a miss: the conversion, the formatting,
\* `self.cache.insert(unix_time, formatted.clone())` and the return.
FormatInsert(c) ==
    /\ format_pc[c].missed
    /\ \E formatted \in {format_timestamp_human(
                            convert_to_timezone(format_input[format_pc[c].index],
                                                timezone))} :
          /\ timestamp_cache' =
                 (format_input[format_pc[c].index].secs :> formatted)
                     @@ timestamp_cache
          /\ formatted_rows' =
                 [formatted_rows EXCEPT ![format_pc[c].index] = Some(formatted)]
    /\ format_pc' = [format_pc EXCEPT ![c] =
                        [index |-> format_pc[c].index + 1, missed |-> FALSE]]
    /\ UNCHANGED <<timezone, format_input>>
    /\ FormatUnchanged
    /\ UNCHANGED oleVars
    /\ UNCHANGED viewerVars

NextFormat ==
    \/ \E c \in FormatChunks : FormatLookup(c)
    \/ \E c \in FormatChunks : FormatInsert(c)

SpecFormat == InitFormat /\ [][NextFormat]_vars

\* C28 as stated: in every order or interleaving, the timestamp string of
\* each formatted row is format_timestamp_human(convert_to_timezone(
\* event.timestamp, timezone)) of the row's own event.
C28_RowTextOfOwnEvent ==
    \A i \in 1..Len(formatted_rows) :
        formatted_rows[i] # None =>
            formatted_rows[i][1] =
                format_timestamp_human(convert_to_timezone(format_input[i],
                                                           timezone))

\* What the code gives: the text of a row is the text of an event of the
\* list that has the same whole second as the row's own event.
C28_RowTextOfSameSecond ==
    \A i \in 1..Len(formatted_rows) :
        formatted_rows[i] # None =>
            \E k \in 1..Len(format_input) :
                /\ format_input[k].secs = format_input[i].secs
                /\ formatted_rows[i][1] =
                       format_timestamp_human(
                           convert_to_timezone(format_input[k], timezone))


(***************************************************************************)
(* SpecOle: OleCompoundDocument::parse from the point where the header and *)
(* the FAT have been read (both by `for` loops over counts of the header), *)
(* one action per iteration of each sector-chain walk.  Sizes are scaled:  *)
(* a sector has OleSectorSize bytes and holds two directory entries, a     *)
(* mini sector has OleMiniSectorSize bytes.  The u32 values 0xFFFFFFFE and *)
(* 0xFFFFFFFF are written as the same bits read as i32.                    *)
(***************************************************************************)
ENDOFCHAIN == -2

FREESECT == -1

OleSectorSize == 2

OleMiniSectorSize == 1

\* `entry.size < 4096` of read_all_streams, in the scale of the model.
MiniStreamCutoff == 4

\* The sector numbers of the model, and the length from which the list of
\* directory entries is no longer extended in the model (the code extends it
\* without limit).
OleSectors == {0, 1}

MaxOleEntries == 4

OleFats == UNION {[1..n -> OleSectors \cup {ENDOFCHAIN, FREESECT}] : n \in 0..2}

\* The inputs: the header fields the walks use, the FAT, how many whole
\* sectors the file holds after the header, the entry every mini-FAT sector
\* holds, and the directory entries (sector 0 holds the root entry and a
\* named stream entry, sector 1 an empty entry and the same stream entry).
OleDocuments ==
    [fat : OleFats,
     directory_first_sector : OleSectors \cup {ENDOFCHAIN},
     mini_fat_first_sector : {0, ENDOFCHAIN},
     num_mini_fat_sectors : {0, 2},
     mini_fat_entry : {0, ENDOFCHAIN},
     num_sectors : {1, 2},
     root_size : {0, 3},
     stream_start : OleSectors,
     stream_size : {1, 4}]

\* The `sector_size / 128` calls of DirectoryEntry::parse on a sector.
DirectoryEntriesAt(doc, sector) ==
    <<IF sector = 0
      THEN [entry_type |-> "Root", starting_sector |-> 0, size |-> doc.root_size]
      ELSE [entry_type |-> "Empty", starting_sector |-> 0, size |-> 0],
      [entry_type |-> "Stream", starting_sector |-> doc.stream_start,
       size |-> doc.stream_size]>>

\* The reads of a sector fail with UnexpectedEof when the file ends before it.
SectorReadable(doc, sector) == sector < doc.num_sectors

\* `fat[current_sector as usize]`, 0-based.
FatAt(fat, sector) == fat[sector + 1]

Min(a, b) == IF a < b THEN a ELSE b

InitOle ==
    /\ ole_doc \in OleDocuments
    /\ ole_stage = "directory"
    /\ current_sector = ole_doc.directory_first_sector
    /\ directory_entries = << >>
    /\ mini_fat = << >>
    /\ mini_fat_reads = 0
    /\ directory_passes = 0
    /\ mini_stream_len = 0
    /\ stream_index = 0
    /\ walk_mini = FALSE
    /\ stream_len = 0
    /\ bytes_remaining = 0
    /\ ole_result = None
    /\ max_path_depth = OptimizedPathDepth
    /\ path_info = EmptyMap
    /\ path_cache = EmptyMap
    /\ walk = NoWalk
    /\ TimelineIdle
    /\ ParseIdle
    /\ ScanIdle
    /\ ConvertIdle
    /\ RecordIdle
    /\ SignatureIdle
    /\ InputIdle
    /\ ImageIdle
    /\ BufferIdle
    /\ InternIdle
    /\ ArtifactIdle
    /\ FilterIdle
    /\ FormatIdle
    /\ ViewerIdle

OleUnchanged ==
    /\ UNCHANGED <<walkVars, timelineVars, parseVars, scanVars>>
    /\ UNCHANGED <<convertVars, recordVars, signatureVars, inputVars>>
    /\ UNCHANGED <<imageVars, bufferVars, internVars, artifactVars, filterVars>>
    /\ UNCHANGED formatVars
    /\ UNCHANGED viewerVars

\* parse returns Err through a `?`.
OleFails ==
    /\ ole_stage' = "done"
    /\ ole_result' = Some("Err")

\* One pass through the `while` of read_directory_entries: the test, the
\* read of the entries of the sector, and the step along the FAT; when the
\* loop ends, parse goes on to read_mini_fat.
ReadDirectorySector ==
    /\ ole_stage = "directory"
    /\ IF current_sector # ENDOFCHAIN /\ current_sector # FREESECT
       THEN IF ~SectorReadable(ole_doc, current_sector)
            THEN /\ OleFails
                 /\ UNCHANGED <<current_sector, directory_entries>>
                 /\ UNCHANGED directory_passes
            ELSE /\ directory_passes' = 1 - directory_passes
                 /\ directory_entries' =
                        IF Len(directory_entries) < MaxOleEntries
                        THEN directory_entries
                                 \o DirectoryEntriesAt(ole_doc, current_sector)
                        ELSE directory_entries
                 /\ IF current_sector < Len(ole_doc.fat)
                    THEN /\ current_sector' = FatAt(ole_doc.fat, current_sector)
                         /\ UNCHANGED <<ole_stage, ole_result>>
                    ELSE /\ current_sector' = ole_doc.mini_fat_first_sector
                         /\ ole_stage' = "mini_fat"
                         /\ UNCHANGED ole_result
       ELSE /\ current_sector' = ole_doc.mini_fat_first_sector
            /\ ole_stage' = "mini_fat"
            /\ UNCHANGED <<directory_entries, directory_passes, ole_result>>
    /\ UNCHANGED <<ole_doc, mini_fat, mini_fat_reads, mini_stream_len>>
    /\ UNCHANGED <<stream_index, walk_mini, stream_len, bytes_remaining>>
    /\ OleUnchanged
    /\ UNCHANGED viewerVars

\* One pass through the `for _ in 0..header.num_mini_fat_sectors` of
\* read_mini_fat; when the loop ends, parse goes on to read_all_streams.
ReadMiniFatSector ==
    /\ ole_stage = "mini_fat"
    /\ IF /\ mini_fat_reads < ole_doc.num_mini_fat_sectors
          /\ current_sector # ENDOFCHAIN
          /\ current_sector # FREESECT
       THEN IF ~SectorReadable(ole_doc, current_sector)
            THEN /\ OleFails
                 /\ UNCHANGED <<current_sector, mini_fat, mini_fat_reads>>
            ELSE /\ mini_fat' = Append(mini_fat, ole_doc.mini_fat_entry)
                 /\ mini_fat_reads' = mini_fat_reads + 1
                 /\ IF current_sector < Len(ole_doc.fat)
                    THEN /\ current_sector' = FatAt(ole_doc.fat, current_sector)
                         /\ UNCHANGED <<ole_stage, ole_result>>
                    ELSE /\ ole_stage' = "find_root"
                         /\ UNCHANGED <<current_sector, ole_result>>
       ELSE /\ ole_stage' = "find_root"
            /\ UNCHANGED <<current_sector, mini_fat, mini_fat_reads, ole_result>>
    /\ UNCHANGED <<ole_doc, directory_entries, mini_stream_len>>
    /\ UNCHANGED <<stream_index, walk_mini, stream_len, bytes_remaining>>
    /\ UNCHANGED directory_passes
    /\ OleUnchanged
    /\ UNCHANGED viewerVars

\* read_all_streams up to the read of the mini stream: the search for the
\* root entry and, when its size is not 0, the start of read_stream_data on
\* it.
FindRootEntry ==
    /\ ole_stage = "find_root"
    /\ LET roots == {i \in 1..Len(directory_entries) :
                        directory_entries[i].entry_type = "Root"}
       IN  IF roots = {}
           THEN /\ OleFails
                /\ UNCHANGED <<current_sector, bytes_remaining>>
           ELSE \E r \in {i \in roots : \A k \in roots : i <= k} :
                   /\ ole_result' = ole_result
                   /\ IF directory_entries[r].size > 0
                      THEN /\ ole_stage' = "walk"
                           /\ current_sector' = directory_entries[r].starting_sector
                           /\ bytes_remaining' = directory_entries[r].size
                      ELSE /\ ole_stage' = "next_stream"
                           /\ UNCHANGED <<current_sector, bytes_remaining>>
    /\ stream_index' = 0
    /\ walk_mini' = FALSE
    /\ stream_len' = 0
    /\ mini_stream_len' = 0
    /\ UNCHANGED <<ole_doc, directory_entries, mini_fat, mini_fat_reads>>
    /\ UNCHANGED directory_passes
    /\ OleUnchanged
    /\ UNCHANGED viewerVars

\* The end of a stream walk: the data of the root is the mini stream, the
\* data of an entry goes into `streams`.
StreamRead(len) ==
    /\ ole_stage' = "next_stream"
    /\ mini_stream_len' = IF stream_index = 0 THEN len ELSE mini_stream_len

\* One pass through the `while` of read_stream_data.
ReadStreamSector ==
    /\ ole_stage = "walk"
    /\ ~walk_mini
    /\ IF /\ current_sector # ENDOFCHAIN
          /\ current_sector # FREESECT
          /\ bytes_remaining > 0
       THEN IF ~SectorReadable(ole_doc, current_sector)
            THEN /\ OleFails
                 /\ UNCHANGED <<current_sector, stream_len, bytes_remaining>>
                 /\ UNCHANGED mini_stream_len
            ELSE \E bytes_to_read \in {Min(OleSectorSize, bytes_remaining)} :
                    /\ stream_len' = stream_len + bytes_to_read
                    /\ bytes_remaining' = bytes_remaining - bytes_to_read
                    /\ UNCHANGED ole_result
                    /\ IF current_sector < Len(ole_doc.fat)
                       THEN /\ current_sector' = FatAt(ole_doc.fat, current_sector)
                            /\ UNCHANGED <<ole_stage, mini_stream_len>>
                       ELSE /\ StreamRead(stream_len + bytes_to_read)
                            /\ UNCHANGED current_sector
       ELSE /\ StreamRead(stream_len)
            /\ UNCHANGED <<current_sector, stream_len, bytes_remaining, ole_result>>
    /\ UNCHANGED <<ole_doc, directory_entries, mini_fat, mini_fat_reads>>
    /\ UNCHANGED <<stream_index, walk_mini>>
    /\ UNCHANGED directory_passes
    /\ OleUnchanged
    /\ UNCHANGED viewerVars

\* One pass through the `while` of read_mini_stream_data.
ReadMiniStreamSector ==
    /\ ole_stage = "walk"
    /\ walk_mini
    /\ IF /\ current_sector # ENDOFCHAIN
          /\ current_sector # FREESECT
          /\ bytes_remaining > 0
          /\ current_sector * OleMiniSectorSize + OleMiniSectorSize
                 <= mini_stream_len
       THEN \E bytes_to_read \in {Min(OleMiniSectorSize, bytes_remaining)} :
               /\ stream_len' = stream_len + bytes_to_read
               /\ bytes_remaining' = bytes_remaining - bytes_to_read
               /\ IF current_sector < Len(mini_fat)
                  THEN /\ current_sector' = mini_fat[current_sector + 1]
                       /\ UNCHANGED <<ole_stage, mini_stream_len>>
                  ELSE /\ StreamRead(stream_len + bytes_to_read)
                       /\ UNCHANGED current_sector
       ELSE /\ StreamRead(stream_len)
            /\ UNCHANGED <<current_sector, stream_len, bytes_remaining>>
    /\ UNCHANGED <<ole_doc, directory_entries, mini_fat, mini_fat_reads>>
    /\ UNCHANGED <<stream_index, walk_mini, ole_result>>
    /\ UNCHANGED directory_passes
    /\ OleUnchanged
    /\ UNCHANGED viewerVars

\* The `for entry in directory_entries` of read_all_streams: the next entry
\* and the choice of the walk for a stream entry, or Ok after the last one.
NextStreamEntry ==
    /\ ole_stage = "next_stream"
    /\ IF stream_index = Len(directory_entries)
       THEN /\ ole_stage' = "done"
            /\ ole_result' = Some("Ok")
            /\ UNCHANGED <<stream_index, walk_mini, current_sector>>
            /\ UNCHANGED <<stream_len, bytes_remaining>>
       ELSE \E entry \in {directory_entries[stream_index + 1]} :
               /\ stream_index' = stream_index + 1
               /\ UNCHANGED ole_result
               /\ IF entry.entry_type = "Stream"
                  THEN /\ ole_stage' = "walk"
                       /\ walk_mini' = (entry.size < MiniStreamCutoff
                                            /\ mini_stream_len # 0)
                       /\ current_sector' = entry.starting_sector
                       /\ bytes_remaining' = entry.size
                       /\ stream_len' = 0
                  ELSE /\ UNCHANGED <<ole_stage, walk_mini, current_sector>>
                       /\ UNCHANGED <<stream_len, bytes_remaining>>
    /\ UNCHANGED <<ole_doc, directory_entries, mini_fat, mini_fat_reads>>
    /\ UNCHANGED mini_stream_len
    /\ UNCHANGED directory_passes
    /\ OleUnchanged

NextOle ==
    \/ ReadDirectorySector
    \/ ReadMiniFatSector
    \/ FindRootEntry
    \/ ReadStreamSector
    \/ ReadMiniStreamSector
    \/ NextStreamEntry

SpecOle == InitOle /\ [][NextOle]_vars

\* parse is one thread that runs until it returns.
SpecOleFair == SpecOle /\ WF_vars(NextOle)

\* The directory chain of the document comes back to a sector it has read.
DirectoryChainRevisits ==
    \E s \in OleSectors :
        /\ SectorReadable(ole_doc, s)
        /\ s < Len(ole_doc.fat)
        /\ FatAt(ole_doc.fat, s) = s
        /\ ole_doc.directory_first_sector = s

\* C29 as stated: OleCompoundDocument::parse terminates, with Ok or Err, on
\* every input, also when the FAT makes a chain revisit a sector.
C29_ParseTerminates == <>(ole_result # None)

\* What holds: once read_directory_entries has returned, parse terminates;
\* the walks of read_mini_fat, read_stream_data and read_mini_stream_data
\* are bounded by num_mini_fat_sectors and by the size of the stream.
C29_TerminatesAfterDirectoryWalk ==
    (ole_stage # "directory") ~> (ole_result # None)

\* A stream walk on a chain that revisits a sector has ended.
C29_RevisitingStreamWalkEnded ==
    /\ ole_result = Some("Ok")
    /\ stream_index > 0
    /\ \/ /\ walk_mini
          /\ mini_fat # << >>
          /\ mini_fat[1] = 0
          /\ stream_len > 0
       \/ /\ ~walk_mini
          /\ ole_doc.stream_start < Len(ole_doc.fat)
          /\ FatAt(ole_doc.fat, ole_doc.stream_start) = ole_doc.stream_start
          /\ stream_len > OleSectorSize


(***************************************************************************)
(* SpecViewer: the loop of InteractiveViewer::run after setup_terminal:    *)
(* draw, then the handler of one key.  filter_text is never written to, so *)
(* filtered_events is 0..events.len()-1 and the Esc arm that clears the    *)
(* filter is not reached.  The keys that only change show_help or          *)
(* horizontal_scroll are left out; no handler of the model reads them.     *)
(***************************************************************************)
MaxViewerRows == 4

MaxQueryLen == 2

\* size.height of the terminal at a draw; 2 gives viewport_size = 0.
TerminalHeights == {2, 3, 4, 6}

\* The text a row is searched in, and the characters typed into a query.
RowTexts == {<<"A">>, <<"b">>}

QueryChars == {"a", "b"}

NavigationKeys ==
    {"j", "k", "PageDown", "PageUp", "g", "G", "Ctrl-d", "Ctrl-u",
     "Tab", "BackTab", "/", "n", "N"}

SearchKeys == {"Enter", "Esc", "Backspace"} \cup QueryChars

\* usize::saturating_sub.
SaturatingSub(a, b) == IF a > b THEN a - b ELSE 0

\* str::to_lowercase on the texts of the model.
LowerChars(s) ==
    [i \in 1..Len(s) |->
        CASE s[i] = "A" -> "a"
          [] s[i] = "B" -> "b"
          [] OTHER -> s[i]]

\* filtered_events.len().
FilteredLen == Len(viewer_rows)

\* next_item without the wrap to the first row.
next_item_unwrapped(sel, filtered_len) ==
    IF filtered_len = 0 THEN sel
    ELSE IF sel = None THEN Some(0) ELSE Some(sel[1] + 1)

\* The selection after each of the row movements.
next_item(sel, filtered_len) ==
    IF filtered_len = 0 THEN sel
    ELSE IF sel = None THEN Some(0)
    ELSE IF sel[1] >= filtered_len - 1 THEN Some(0) ELSE Some(sel[1] + 1)

previous_item(sel, filtered_len) ==
    IF filtered_len = 0 THEN sel
    ELSE IF sel = None THEN Some(0)
    ELSE IF sel[1] = 0 THEN Some(filtered_len - 1) ELSE Some(sel[1] - 1)

page_up(sel, filtered_len, height) ==
    IF filtered_len = 0 THEN sel
    ELSE IF sel = None THEN Some(0)
    ELSE Some(SaturatingSub(sel[1], SaturatingSub(height, 3)))

page_down(sel, filtered_len, height) ==
    IF filtered_len = 0 THEN sel
    ELSE IF sel = None THEN Some(0)
    ELSE Some(Min(sel[1] + SaturatingSub(height, 3), filtered_len - 1))

half_page_up(sel, filtered_len, height) ==
    IF filtered_len = 0 THEN sel
    ELSE IF sel = None THEN Some(0)
    ELSE Some(SaturatingSub(sel[1], Max(height \div 2, 1)))

half_page_down(sel, filtered_len, height) ==
    IF filtered_len = 0 THEN sel
    ELSE IF sel = None THEN Some(0)
    ELSE Some(Min(sel[1] + Max(height \div 2, 1), filtered_len - 1))

next_column(column) == (column + 1) % 6

previous_column(column) == IF column = 0 THEN 5 ELSE column - 1

\* perform_search for a query that is not empty: the display indexes of the
\* rows whose text contains the query, in order.
RECURSIVE MatchesFrom(_, _, _)
MatchesFrom(texts, query_lower, i) ==
    IF i > Len(texts) THEN << >>
    ELSE (IF Contains(LowerChars(texts[i]), query_lower) THEN <<i - 1>> ELSE << >>)
             \o MatchesFrom(texts, query_lower, i + 1)

perform_search(texts, query) == MatchesFrom(texts, LowerChars(query), 1)

\* jump_to_search_result: the selection and current_search_index after it.
jump_to_search_result(results, search_index, sel, index) ==
    IF search_index < Len(results)
    THEN [selected |-> Some(results[search_index + 1]),
          current_search_index |-> search_index]
    ELSE [selected |-> sel, current_search_index |-> index]

next_search_result(results, sel, index) ==
    IF results # << >>
    THEN jump_to_search_result(results, (index + 1) % Len(results), sel, index)
    ELSE [selected |-> sel, current_search_index |-> index]

previous_search_result(results, sel, index) ==
    IF results # << >>
    THEN jump_to_search_result(
             results, IF index = 0 THEN Len(results) - 1 ELSE index - 1, sel, index)
    ELSE [selected |-> sel, current_search_index |-> index]

\* viewport_start as draw_main_interface sets it.
draw_viewport_start(sel, size, filtered_len) ==
    LET current_selection == UnwrapOr(sel, 0)
        half_viewport == size \div 2
    IN  IF current_selection < half_viewport THEN 0
        ELSE IF current_selection + half_viewport >= filtered_len
        THEN SaturatingSub(filtered_len, size)
        ELSE SaturatingSub(current_selection, half_viewport)

\* `visible_end` of draw_main_interface.
VisibleEnd == Min(viewport_start + viewport_size, FilteredLen)

InitViewer ==
    /\ viewer_rows \in UNION {[1..n -> RowTexts] : n \in 0..MaxViewerRows}
    /\ selected = Some(0)
    /\ current_column = 0
    /\ search_mode = FALSE
    /\ search_query = << >>
    /\ search_results = << >>
    /\ current_search_index = 0
    /\ viewport_start = 0
    /\ terminal_height \in TerminalHeights
    /\ viewport_size = SaturatingSub(terminal_height, 2)
    /\ drawn = FALSE
    /\ max_path_depth = OptimizedPathDepth
    /\ path_info = EmptyMap
    /\ path_cache = EmptyMap
    /\ walk = NoWalk
    /\ TimelineIdle
    /\ ParseIdle
    /\ ScanIdle
    /\ ConvertIdle
    /\ RecordIdle
    /\ SignatureIdle
    /\ InputIdle
    /\ ImageIdle
    /\ BufferIdle
    /\ InternIdle
    /\ ArtifactIdle
    /\ FilterIdle
    /\ FormatIdle
    /\ OleIdle

ViewerUnchanged ==
    /\ UNCHANGED <<walkVars, timelineVars, parseVars, scanVars>>
    /\ UNCHANGED <<convertVars, recordVars, signatureVars, inputVars>>
    /\ UNCHANGED <<imageVars, bufferVars, internVars, artifactVars, filterVars>>
    /\ UNCHANGED <<formatVars, oleVars>>

\* The part of draw_main_interface that writes to the viewer: the terminal
\* may have any height of the model at the time of the draw.
DrawWindow(sel) ==
    \E height \in TerminalHeights :
        \E size \in {IF height # terminal_height
                     THEN SaturatingSub(height, 2) ELSE viewport_size} :
            /\ terminal_height' = height
            /\ viewport_size' = size
            /\ viewport_start' = draw_viewport_start(sel, size, FilteredLen)

\* `self.draw()?` at the head of the loop of run.
draw_main_interface ==
    /\ ~search_mode
    /\ ~drawn
    /\ DrawWindow(selected)
    /\ drawn' = TRUE
    /\ UNCHANGED <<viewer_rows, selected, current_column, search_mode>>
    /\ UNCHANGED <<search_query, search_results, current_search_index>>
    /\ ViewerUnchanged

\* handle_key_event for a key of the claim; `/` is start_search up to its
\* first draw.
handle_key_event(key) ==
    /\ ~search_mode
    /\ drawn
    /\ key \in NavigationKeys
    /\ IF key = "/"
       THEN /\ search_mode' = TRUE
            /\ search_query' = << >>
            /\ search_results' = << >>
            /\ current_search_index' = 0
            /\ DrawWindow(selected)
            /\ drawn' = TRUE
            /\ UNCHANGED <<selected, current_column>>
       ELSE /\ \E jump \in {CASE key = "n" ->
                                 next_search_result(search_results, selected,
                                                    current_search_index)
                              [] key = "N" ->
                                 previous_search_result(search_results, selected,
                                                        current_search_index)
                              [] OTHER ->
                                 [selected |->
                                      CASE key = "j" -> next_item(selected, FilteredLen)
                                        [] key = "k" ->
                                           previous_item(selected, FilteredLen)
                                        [] key = "PageDown" ->
                                           page_down(selected, FilteredLen,
                                                     terminal_height)
                                        [] key = "PageUp" ->
                                           page_up(selected, FilteredLen,
                                                   terminal_height)
                                        [] key = "Ctrl-d" ->
                                           half_page_down(selected, FilteredLen,
                                                          terminal_height)
                                        [] key = "Ctrl-u" ->
                                           half_page_up(selected, FilteredLen,
                                                        terminal_height)
                                        [] key = "g" -> Some(0)
                                        [] key = "G" ->
                                           IF FilteredLen # 0
                                           THEN Some(FilteredLen - 1) ELSE selected
                                        [] OTHER -> selected,
                                  current_search_index |-> current_search_index]} :
                  /\ selected' = jump.selected
                  /\ current_search_index' = jump.current_search_index
            /\ current_column' =
                   CASE key = "Tab" -> next_column(current_column)
                     [] key = "BackTab" -> previous_column(current_column)
                     [] OTHER -> current_column
            /\ drawn' = FALSE
            /\ UNCHANGED <<search_mode, search_query, search_results>>
            /\ UNCHANGED <<viewport_start, viewport_size, terminal_height>>
    /\ UNCHANGED viewer_rows
    /\ ViewerUnchanged

\* One key in the input loop of start_search.
start_search(key) ==
    /\ search_mode
    /\ key \in SearchKeys
    /\ CASE key = "Enter" ->
              /\ search_mode' = FALSE
              /\ \E results \in {IF search_query # << >>
                                 THEN perform_search(viewer_rows, search_query)
                                 ELSE search_results} :
                    /\ search_results' = results
                    /\ \E jump \in {IF search_query # << >> /\ results # << >>
                                    THEN jump_to_search_result(results, 0, selected, 0)
                                    ELSE [selected |-> selected,
                                          current_search_index |->
                                              IF search_query # << >> THEN 0
                                              ELSE current_search_index]} :
                          /\ selected' = jump.selected
                          /\ current_search_index' = jump.current_search_index
              /\ drawn' = FALSE
              /\ UNCHANGED <<search_query, viewport_start, viewport_size>>
              /\ UNCHANGED terminal_height
         [] key = "Esc" ->
              /\ search_mode' = FALSE
              /\ search_query' = << >>
              /\ search_results' = << >>
              /\ drawn' = FALSE
              /\ UNCHANGED <<selected, current_search_index, viewport_start>>
              /\ UNCHANGED <<viewport_size, terminal_height>>
         [] key = "Backspace" ->
              /\ search_query # << >>
              /\ search_query' = SubSeq(search_query, 1, Len(search_query) - 1)
              /\ DrawWindow(selected)
              /\ drawn' = TRUE
              /\ UNCHANGED <<search_mode, search_results, selected>>
              /\ UNCHANGED current_search_index
         [] OTHER ->
              /\ Len(search_query) < MaxQueryLen
              /\ search_query' = Append(search_query, key)
              /\ DrawWindow(selected)
              /\ drawn' = TRUE
              /\ UNCHANGED <<search_mode, search_results, selected>>
              /\ UNCHANGED current_search_index
    /\ UNCHANGED <<viewer_rows, current_column>>
    /\ ViewerUnchanged

NextViewer ==
    \/ draw_main_interface
    \/ \E key \in NavigationKeys : handle_key_event(key)
    \/ \E key \in SearchKeys : start_search(key)

SpecViewer == InitViewer /\ [][NextViewer]_vars

=============================================================================
